---- MODULE Spec2Model ----
(***************************************************************************)
(* Budget-and-ledger aggregation engine of the finance tracker backend:    *)
(* the FinancialRecord and Budget collections, the budget reconciler       *)
(* (Budget.updateSpentAmount) and the request handlers of                   *)
(* backend/routes/records.js and backend/routes/budget.js.                  *)
(*                                                                         *)
(* Time.  A Date is an instant.  Instants are counted in ticks; a day has  *)
(* four sampled times of day (00:00:00.000, 12:00:00.000, 23:59:59.000,    *)
(* 23:59:59.999), which are the times of day the handlers construct or     *)
(* compare against.  Days are counted from 1 January of the first year of  *)
(* Years, with the Gregorian calendar.  The server's zone is taken to be   *)
(* UTC, so that local calendar fields and parsed ISO dates agree.          *)
(***************************************************************************)
EXTENDS Integers, Sequences, FiniteSets, TLC

VARIABLES
    records,        \* FinancialRecord collection: record id -> document
    budgets,        \* Budget collection: budget id -> document
    nextRecordId,   \* number of record ids handed out so far
    nextBudgetId,   \* number of budget ids handed out so far
    now,            \* the server clock (an instant)
    resp,           \* the response of the last completed request
    inflight        \* per client: the request it has in flight or, for a
                    \* client that runs the web page, the state of the page

vars == <<records, budgets, nextRecordId, nextBudgetId, now, resp, inflight>>

----------------------------------------------------------------------------
(* Bounds of the model *)

MaxRecords == 2
MaxBudgets == 2
MaxAmount == 2

Users == {"u1", "u2"}
Clients == {"p1", "p2"}
\* A field the request body does not carry: undefined
NoVal == "undefined"
NoNum == 0 - 1
Sentinel == "Overall Budget"
Types == {"income", "expense"}
Periods == {"weekly", "monthly", "yearly"}
Years == 2024 .. 2025

----------------------------------------------------------------------------
(* Calendar: what the JavaScript Date constructor and getters compute *)

TimeOfDay == [midnight |-> 0, noon |-> 1, lastSecond |-> 2, lastMilli |-> 3]
TicksPerDay == TimeOfDay.lastMilli + 1

IsLeap(y) == (y % 4 = 0 /\ y % 100 # 0) \/ y % 400 = 0

DaysInYear(y) == IF IsLeap(y) THEN 366 ELSE 365

\* m0 is a 0-based month index in 0..11
DaysInMonth(y, m0) ==
    IF m0 = 1 THEN (IF IsLeap(y) THEN 29 ELSE 28)
    ELSE IF m0 \in {3, 5, 8, 10} THEN 30 ELSE 31

FirstYear == CHOOSE y0 \in Years : \A y1 \in Years : y0 <= y1

RECURSIVE DaysBeforeYear(_)
DaysBeforeYear(y) ==
    IF y <= FirstYear THEN 0 ELSE DaysBeforeYear(y - 1) + DaysInYear(y - 1)

RECURSIVE DaysBeforeMonth(_, _)
DaysBeforeMonth(y, m0) ==
    IF m0 = 0 THEN 0 ELSE DaysBeforeMonth(y, m0 - 1) + DaysInMonth(y, m0 - 1)

\* new Date(y, m0, d, <time of day>): month overflow (m0 = 12) rolls into the
\* next year and day 0 is the last day of the previous month
MakeDate(y, m0, d, tod) ==
    LET yy == y + (m0 \div 12)
        mm == m0 % 12
    IN  (DaysBeforeYear(yy) + DaysBeforeMonth(yy, mm) + (d - 1)) * TicksPerDay + tod

DayOf(t) == t \div TicksPerDay
TimeOf(t) == t % TicksPerDay

GetFullYear(t) ==
    CHOOSE y \in Years :
        DaysBeforeYear(y) <= DayOf(t) /\ DayOf(t) < DaysBeforeYear(y) + DaysInYear(y)

GetMonth(t) ==
    LET y == GetFullYear(t)
        doy == DayOf(t) - DaysBeforeYear(y)
    IN  CHOOSE m0 \in 0 .. 11 :
            DaysBeforeMonth(y, m0) <= doy /\ doy < DaysBeforeMonth(y, m0) + DaysInMonth(y, m0)

GetDate(t) ==
    LET y == GetFullYear(t)
    IN  DayOf(t) - DaysBeforeYear(y) - DaysBeforeMonth(y, GetMonth(t)) + 1

\* Day of the week of 1 January of year y, 0 = Sunday (Gauss)
WeekdayOfJan1(y) ==
    (1 + 5 * ((y - 1) % 4) + 4 * ((y - 1) % 100) + 6 * ((y - 1) % 400)) % 7

GetDay(t) == (DayOf(t) + WeekdayOfJan1(FirstYear)) % 7

\* date.setDate(date.getDate() + k): the same time of day, k days later
AddDays(t, k) == t + k * TicksPerDay

----------------------------------------------------------------------------
(* Documents and the queries the handlers run *)

\* A window whose week starts on Monday and whose month ends on day 30
\* (what C13 rules out)
ComputeWindowNaive(period, t) ==
    LET y == GetFullYear(t)
        m == GetMonth(t)
        monthly == [startDate |-> MakeDate(y, m, 1, TimeOfDay.midnight),
                    endDate   |-> MakeDate(y, m, 30, TimeOfDay.midnight)]
    IN  CASE period = "weekly" ->
                LET startDate == AddDays(t, 0 - ((GetDay(t) + 6) % 7))
                IN  [startDate |-> startDate, endDate |-> AddDays(startDate, 6)]
          [] period = "monthly" -> monthly
          [] period = "yearly" ->
                [startDate |-> MakeDate(y, 0, 1, TimeOfDay.midnight),
                 endDate   |-> MakeDate(y, 11, 31, TimeOfDay.midnight)]
          [] OTHER -> monthly

\* A budget's window for a period, computed from the current instant
ComputeWindow(period, t) ==
    LET y == GetFullYear(t)
        m == GetMonth(t)
        monthly == [startDate |-> MakeDate(y, m, 1, TimeOfDay.midnight),
                    endDate   |-> MakeDate(y, m + 1, 0, TimeOfDay.midnight)]
    IN  CASE period = "weekly" ->
                LET startDate == AddDays(t, 0 - GetDay(t))
                IN  [startDate |-> startDate, endDate |-> AddDays(startDate, 6)]
          [] period = "monthly" -> monthly
          [] period = "yearly" ->
                [startDate |-> MakeDate(y, 0, 1, TimeOfDay.midnight),
                 endDate   |-> MakeDate(y, 11, 31, TimeOfDay.midnight)]
          [] OTHER -> monthly

RECURSIVE SumAmounts(_, _)
SumAmounts(recs, ids) ==
    IF ids = {} THEN 0
    ELSE LET id == CHOOSE x \in ids : TRUE
         IN  recs[id].amount + SumAmounts(recs, ids \ {id})

\* A $match stage without the date range (what C1 rules out)
SpentMatchAnyDate(b, recs) ==
    {id \in DOMAIN recs :
        /\ recs[id].user = b.user
        /\ recs[id].type = "expense"
        /\ recs[id].category = b.category}

\* A $match stage whose date range leaves out endDate itself (what C2 rules out)
SpentMatchBeforeEnd(b, recs) ==
    {id \in DOMAIN recs :
        /\ recs[id].user = b.user
        /\ recs[id].type = "expense"
        /\ recs[id].category = b.category
        /\ recs[id].date >= b.startDate
        /\ recs[id].date < b.endDate}

\* The $match stage of updateSpentAmount's aggregation
SpentMatch(b, recs) ==
    {id \in DOMAIN recs :
        /\ recs[id].user = b.user
        /\ recs[id].type = "expense"
        /\ recs[id].category = b.category
        /\ recs[id].date >= b.startDate
        /\ recs[id].date <= b.endDate}

\* The $group stage and the assignment to this.spentAmount
SpentTotal(b, recs) ==
    LET result == SpentMatch(b, recs)
    IN  IF result # {} THEN SumAmounts(recs, result) ELSE 0

\* A reconcile that adds the aggregate to the stored spentAmount (what C21
\* rules out)
UpdateSpentAmountAdding(b, recs) ==
    [b EXCEPT !.spentAmount = @ + SpentTotal(b, recs)]

\* A reconcile that also closes the budget (what C32 rules out)
UpdateSpentAmountClosing(b, recs) ==
    [b EXCEPT !.spentAmount = SpentTotal(b, recs), !.isActive = FALSE]

\* budget.updateSpentAmount(): the document as saved
UpdateSpentAmount(b, recs) == [b EXCEPT !.spentAmount = SpentTotal(b, recs)]

\* Budget virtuals
\* A status that takes a budget spent exactly in full for not yet exceeded, and
\* one spent exactly to the threshold for still good (what C20 rules out)
StatusStrict(b) ==
    IF b.budgetAmount > 0 /\ b.spentAmount > b.budgetAmount THEN "exceeded"
    ELSE IF b.budgetAmount > 0 /\ b.spentAmount * 100 > b.alertThreshold * b.budgetAmount
    THEN "warning"
    ELSE "good"

RemainingAmount(b) ==
    IF b.budgetAmount - b.spentAmount > 0 THEN b.budgetAmount - b.spentAmount ELSE 0

\* percentageSpent >= p, for a percentage p, without the division
PercentageAtLeast(b, p) ==
    IF b.budgetAmount > 0 THEN b.spentAmount * 100 >= p * b.budgetAmount ELSE 0 >= p

Status(b) ==
    IF PercentageAtLeast(b, 100) THEN "exceeded"
    ELSE IF PercentageAtLeast(b, b.alertThreshold) THEN "warning"
    ELSE "good"

\* percentageSpent as the exact fraction num / den
PercentageSpent(b) ==
    IF b.budgetAmount > 0
    THEN [num |-> b.spentAmount * 100, den |-> b.budgetAmount]
    ELSE [num |-> 0, den |-> 1]

\* A balance over the records of every user (what C23 rules out)
GetUserBalanceOfAll(recs, u) ==
    LET ofType(t) == {id \in DOMAIN recs : recs[id].type = t}
        total(t) == IF ofType(t) # {} THEN SumAmounts(recs, ofType(t)) ELSE 0
    IN  [income  |-> total("income"),
         expense |-> total("expense"),
         balance |-> total("income") - total("expense")]

\* FinancialRecord.getUserBalance(userId): $match on the user, $group by type
GetUserBalance(recs, u) ==
    LET ofType(t) == {id \in DOMAIN recs : recs[id].user = u /\ recs[id].type = t}
        total(t) == IF ofType(t) # {} THEN SumAmounts(recs, ofType(t)) ELSE 0
    IN  [income  |-> total("income"),
         expense |-> total("expense"),
         balance |-> total("income") - total("expense")]

\* A lookup that takes inactive budgets too (what C9 rules out)
BudgetsOfCategory(bud, u, category) ==
    {id \in DOMAIN bud : bud[id].user = u /\ bud[id].category = category}

\* GET /api/records/monthly-summary and FinancialRecord.getMonthlySummary:
\* $match on the user and on the month from its first day 00:00:00 to its
\* last day 23:59:59, $group by type; month is 1-based
GetMonthlySummary(recs, u, year, month) ==
    LET startDate == MakeDate(year, month - 1, 1, TimeOfDay.midnight)
        endDate == MakeDate(year, month, 0, TimeOfDay.lastSecond)
        ofType(t) == {id \in DOMAIN recs :
                         /\ recs[id].user = u
                         /\ recs[id].type = t
                         /\ recs[id].date >= startDate
                         /\ recs[id].date <= endDate}
        total(t) == IF ofType(t) # {} THEN SumAmounts(recs, ofType(t)) ELSE 0
    IN  [income  |-> total("income"),
         expense |-> total("expense"),
         balance |-> total("income") - total("expense"),
         month   |-> month,
         year    |-> year]

\* GET /api/records/category-breakdown without year and month: $match on the
\* user and the type, $group by category with total and count
GetCategoryBreakdown(recs, u, type) ==
    LET matched == {id \in DOMAIN recs : recs[id].user = u /\ recs[id].type = type}
        of(c) == {id \in matched : recs[id].category = c}
    IN  [c \in {recs[id].category : id \in matched} |->
            [total |-> SumAmounts(recs, of(c)), count |-> Cardinality(of(c))]]

\* GET /api/records: the user's records, whatever the page
ListRecords(recs, u) ==
    {<<id, recs[id]>> : id \in {x \in DOMAIN recs : recs[x].user = u}}

\* Budget.findOne({user, category, isActive: true})
ActiveBudgets(bud, u, category) ==
    {id \in DOMAIN bud :
        bud[id].user = u /\ bud[id].category = category /\ bud[id].isActive}

\* Budget.findOne({user, category, isActive: true,
\*                 startDate: {$lte: date}, endDate: {$gte: date}})
ActiveBudgetsAt(bud, u, category, date) ==
    {id \in ActiveBudgets(bud, u, category) :
        bud[id].startDate <= date /\ bud[id].endDate >= date}

\* findOne returns one of the matching documents, or null (0) when none matches
FindOne(matches) == IF matches = {} THEN {0} ELSE matches

\* A validator that lets an amount of 0 pass (what C19 rules out)
ValidRecordBodyFromZero(body) ==
    /\ body.amount >= 0
    /\ body.type \in Types

\* express-validator chains
ValidRecordBody(body) ==
    /\ body.amount >= 1
    /\ body.type \in Types

ValidBudgetBody(body) ==
    /\ body.budgetAmount >= 0
    /\ body.period \in Periods
    /\ body.alertThreshold = NoNum \/ body.alertThreshold \in 0 .. 100

\* A reconcile that clears spentAmount when its aggregation fails (what C15
\* rules out)
RECURSIVE ReconcileAllResetting(_, _, _, _)
ReconcileAllResetting(bud, recs, ids, okCalls) ==
    IF ids = << >> THEN bud
    ELSE IF okCalls = 0 THEN [bud EXCEPT ![Head(ids)].spentAmount = 0]
    ELSE ReconcileAllResetting([bud EXCEPT ![Head(ids)] = UpdateSpentAmount(bud[Head(ids)], recs)],
                               recs, Tail(ids), okCalls - 1)

\* Reconcile the budgets of a sequence one after the other; the aggregation
\* fails at call number okCalls + 1, which ends the handler in its catch block
RECURSIVE ReconcileAll(_, _, _, _)
ReconcileAll(bud, recs, ids, okCalls) ==
    IF ids = << >> \/ okCalls = 0 THEN bud
    ELSE ReconcileAll([bud EXCEPT ![Head(ids)] = UpdateSpentAmount(bud[Head(ids)], recs)],
                      recs, Tail(ids), okCalls - 1)

\* What the model keeps of a response: the operation, the HTTP status and the
\* budget documents of the body
Respond(op, status, docs) == [op |-> op, status |-> status, budgets |-> docs]

NoDocs == << >>

\* res.json(data) of a handler that answers with figures
RespondData(op, status, data) ==
    [op |-> op, status |-> status, budgets |-> NoDocs, data |-> data]

----------------------------------------------------------------------------
(* Record handlers (backend/routes/records.js), one request at a time *)

\* POST /api/records
CreateRecord(u, body, okCalls) ==
    IF ~ValidRecordBody(body)
    THEN /\ resp' = Respond("createRecord", 400, NoDocs)
         /\ UNCHANGED <<records, budgets, nextRecordId, nextBudgetId, now, inflight>>
    ELSE /\ nextRecordId < MaxRecords
         /\ LET id == nextRecordId + 1
                record == [user     |-> u,
                           type     |-> body.type,
                           category |-> body.category,
                           date     |-> IF body.date = NoNum THEN now ELSE body.date,
                           amount   |-> body.amount]
                recs1 == [x \in DOMAIN records \cup {id} |->
                             IF x = id THEN record ELSE records[x]]
                found == IF record.type = "expense"
                         THEN FindOne(ActiveBudgetsAt(budgets, u, record.category, record.date))
                         ELSE {0}
            IN  /\ records' = recs1
                /\ nextRecordId' = id
                /\ \E budget \in found :
                      LET ids == IF budget = 0 THEN << >> ELSE <<budget>>
                      IN  /\ budgets' = ReconcileAll(budgets, recs1, ids, okCalls)
                          /\ resp' = Respond("createRecord", IF Len(ids) > okCalls THEN 500 ELSE 201, NoDocs)
         /\ UNCHANGED <<nextBudgetId, now, inflight>>

\* PUT /api/records/:id
UpdateRecord(u, id, body, okCalls) ==
    IF ~ValidRecordBody(body)
    THEN /\ resp' = Respond("updateRecord", 400, NoDocs)
         /\ UNCHANGED <<records, budgets, nextRecordId, nextBudgetId, now, inflight>>
    ELSE IF id \notin DOMAIN records \/ records[id].user # u
    THEN /\ resp' = Respond("updateRecord", 404, NoDocs)
         /\ UNCHANGED <<records, budgets, nextRecordId, nextBudgetId, now, inflight>>
    ELSE LET oldCategory == records[id].category
             oldType == records[id].type
             \* Object.assign(record, req.body)
             record == [user     |-> IF body.user = NoVal THEN records[id].user ELSE body.user,
                        type     |-> body.type,
                        category |-> body.category,
                        date     |-> IF body.date = NoNum THEN records[id].date ELSE body.date,
                        amount   |-> body.amount]
             recs1 == [records EXCEPT ![id] = record]
             foundOld == IF (oldType = "expense" \/ record.type = "expense")
                            /\ oldCategory # record.category
                         THEN FindOne(ActiveBudgets(budgets, u, oldCategory))
                         ELSE {0}
             foundNew == IF oldType = "expense" \/ record.type = "expense"
                         THEN FindOne(ActiveBudgetsAt(budgets, u, record.category, record.date))
                         ELSE {0}
         IN  /\ records' = recs1
             /\ \E oldBudget \in foundOld, newBudget \in foundNew :
                   LET ids == (IF oldBudget = 0 THEN << >> ELSE <<oldBudget>>)
                              \o (IF newBudget = 0 THEN << >> ELSE <<newBudget>>)
                   IN  /\ budgets' = ReconcileAll(budgets, recs1, ids, okCalls)
                       /\ resp' = Respond("updateRecord", IF Len(ids) > okCalls THEN 500 ELSE 200, NoDocs)
             /\ UNCHANGED <<nextRecordId, nextBudgetId, now, inflight>>

\* DELETE /api/records/:id
DeleteRecord(u, id, okCalls) ==
    IF id \notin DOMAIN records \/ records[id].user # u
    THEN /\ resp' = Respond("deleteRecord", 404, NoDocs)
         /\ UNCHANGED <<records, budgets, nextRecordId, nextBudgetId, now, inflight>>
    ELSE LET record == records[id]
             recs1 == [x \in DOMAIN records \ {id} |-> records[x]]
             found == IF record.type = "expense"
                      THEN FindOne(ActiveBudgets(budgets, u, record.category))
                      ELSE {0}
         IN  /\ records' = recs1
             /\ \E budget \in found :
                   LET ids == IF budget = 0 THEN << >> ELSE <<budget>>
                   IN  /\ budgets' = ReconcileAll(budgets, recs1, ids, okCalls)
                       /\ resp' = Respond("deleteRecord", IF Len(ids) > okCalls THEN 500 ELSE 200, NoDocs)
             /\ UNCHANGED <<nextRecordId, nextBudgetId, now, inflight>>

\* GET /api/records/:id, for an id of ObjectId format
GetRecord(u, id) ==
    /\ resp' = Respond("getRecord",
                       IF id \notin DOMAIN records \/ records[id].user # u THEN 404 ELSE 200,
                       NoDocs)
    /\ UNCHANGED <<records, budgets, nextRecordId, nextBudgetId, now, inflight>>

----------------------------------------------------------------------------
(* Budget handlers (backend/routes/budget.js), one request at a time *)

\* Budget.getUserBudgetOverview(userId): find({user, isActive: true,
\* startDate: {$lte: currentDate}, endDate: {$gte: currentDate}})
ActiveBudgetsOfUser(bud, u, currentDate) ==
    {id \in DOMAIN bud :
        /\ bud[id].user = u
        /\ bud[id].isActive
        /\ bud[id].startDate <= currentDate
        /\ bud[id].endDate >= currentDate}

\* .sort({category: 1}) compares the category strings
CategoryRank(c) ==
    CASE c = "Entertainment" -> 1
      [] c = "Food & Dining" -> 2
      [] OTHER -> 3

\* The orders in which find(query).sort({category: 1}) can return the documents ids
SortedByCategory(bud, ids) ==
    {s \in [1 .. Cardinality(ids) -> ids] :
        /\ \A i, j \in DOMAIN s : i # j => s[i] # s[j]
        /\ \A i, j \in DOMAIN s :
              i < j => CategoryRank(bud[s[i]].category) <= CategoryRank(bud[s[j]].category)}

\* GET /api/budget
ListBudgets(u, active, okCalls) ==
    LET found == {id \in DOMAIN budgets :
                     budgets[id].user = u /\ (active = "true" => budgets[id].isActive)}
    IN  /\ \E order \in SortedByCategory(budgets, found) :
              /\ budgets' = ReconcileAll(budgets, records, order, okCalls)
              /\ resp' = IF Len(order) > okCalls
                         THEN Respond("listBudgets", 500, NoDocs)
                         ELSE Respond("listBudgets", 200,
                                      [id \in found |-> UpdateSpentAmount(budgets[id], records)])
        /\ UNCHANGED <<records, nextRecordId, nextBudgetId, now, inflight>>

\* GET /api/budget/:id
GetBudget(u, id, okCalls) ==
    IF id \notin DOMAIN budgets \/ budgets[id].user # u
    THEN /\ resp' = Respond("getBudget", 404, NoDocs)
         /\ UNCHANGED <<records, budgets, nextRecordId, nextBudgetId, now, inflight>>
    ELSE /\ budgets' = ReconcileAll(budgets, records, <<id>>, okCalls)
         /\ resp' = IF okCalls < 1
                    THEN Respond("getBudget", 500, NoDocs)
                    ELSE Respond("getBudget", 200,
                                 [x \in {id} |-> UpdateSpentAmount(budgets[id], records)])
         /\ UNCHANGED <<records, nextRecordId, nextBudgetId, now, inflight>>

\* A budget document with the status the overview files it under
WithStatus(b) ==
    [f \in DOMAIN b \cup {"status"} |-> IF f = "status" THEN Status(b) ELSE b[f]]

\* budgets.reduce((sum, budget) => sum + budget[f], 0)
RECURSIVE SumField(_, _, _)
SumField(docs, ids, f) ==
    IF ids = {} THEN 0
    ELSE LET id == CHOOSE x \in ids : TRUE
         IN  docs[id][f] + SumField(docs, ids \ {id}, f)

\* summary of the overview: the totals of the returned budgets
OverviewSummary(docs) ==
    LET totalBudget == SumField(docs, DOMAIN docs, "budgetAmount")
        totalSpent == SumField(docs, DOMAIN docs, "spentAmount")
    IN  [totalBudget    |-> totalBudget,
         totalSpent     |-> totalSpent,
         totalRemaining |-> totalBudget - totalSpent]

\* budgetsByStatus of the overview: budgets.filter(b => b.status === ...)
BudgetsByStatus(docs) ==
    [st \in {"good", "warning", "exceeded"} |-> {id \in DOMAIN docs : Status(docs[id]) = st}]

\* GET /api/budget/overview/summary: the user's active budgets, reconciled,
\* with their totals and grouped by status
GetBudgetOverview(u, okCalls) ==
    LET found == ActiveBudgetsOfUser(budgets, u, now)
        docs == [id \in found |-> UpdateSpentAmount(budgets[id], records)]
    IN  /\ \E order \in SortedByCategory(budgets, found) :
              /\ budgets' = ReconcileAll(budgets, records, order, okCalls)
              /\ resp' = IF Len(order) > okCalls
                         THEN Respond("budgetOverview", 500, NoDocs)
                         ELSE [op      |-> "budgetOverview",
                               status  |-> 200,
                               budgets |-> [id \in found |-> WithStatus(docs[id])],
                               data    |-> [summary         |-> OverviewSummary(docs),
                                            budgetsByStatus |-> BudgetsByStatus(docs)]]
        /\ UNCHANGED <<records, nextRecordId, nextBudgetId, now, inflight>>

\* A create that passes the whole body on to Budget.create (what C22 rules out)
NewBudgetFromBody(u, body, t) ==
    LET w == ComputeWindow(body.period, t)
    IN  [user           |-> u,
         category       |-> body.category,
         budgetAmount   |-> body.budgetAmount,
         spentAmount    |-> IF "spentAmount" \in DOMAIN body /\ body.spentAmount # NoNum
                            THEN body.spentAmount ELSE 0,
         period         |-> body.period,
         startDate      |-> w.startDate,
         endDate        |-> w.endDate,
         isActive       |-> TRUE,
         alertThreshold |-> IF body.alertThreshold = NoNum \/ body.alertThreshold = 0
                            THEN 80 ELSE body.alertThreshold]

\* Budget.create({...}) of POST /api/budget, with the schema's defaults
NewBudget(u, body, t) ==
    LET w == ComputeWindow(body.period, t)
    IN  [user           |-> u,
         category       |-> body.category,
         budgetAmount   |-> body.budgetAmount,
         spentAmount    |-> 0,
         period         |-> body.period,
         startDate      |-> w.startDate,
         endDate        |-> w.endDate,
         isActive       |-> TRUE,
         alertThreshold |-> IF body.alertThreshold = NoNum \/ body.alertThreshold = 0
                            THEN 80 ELSE body.alertThreshold]

\* POST /api/budget
CreateBudget(u, body, okCalls) ==
    IF ~ValidBudgetBody(body)
    THEN /\ resp' = Respond("createBudget", 400, NoDocs)
         /\ UNCHANGED <<records, budgets, nextRecordId, nextBudgetId, now, inflight>>
    ELSE IF ActiveBudgets(budgets, u, body.category) # {}
    THEN /\ resp' = Respond("createBudget", 400, NoDocs)
         /\ UNCHANGED <<records, budgets, nextRecordId, nextBudgetId, now, inflight>>
    ELSE /\ nextBudgetId < MaxBudgets
         /\ LET id == nextBudgetId + 1
                bud1 == [x \in DOMAIN budgets \cup {id} |->
                            IF x = id THEN NewBudget(u, body, now) ELSE budgets[x]]
            IN  /\ nextBudgetId' = id
                /\ budgets' = ReconcileAll(bud1, records, <<id>>, okCalls)
                /\ resp' = Respond("createBudget", IF okCalls < 1 THEN 500 ELSE 201, NoDocs)
         /\ UNCHANGED <<records, nextRecordId, now, inflight>>

\* The field assignments and the window recalculation of PUT /api/budget/:id
ApplyBudgetUpdate(b, body, t) ==
    LET b1 == [b EXCEPT
                 !.budgetAmount = IF body.budgetAmount # NoNum THEN body.budgetAmount ELSE @,
                 !.period = IF body.period # NoVal THEN body.period ELSE @,
                 !.alertThreshold = IF body.alertThreshold # NoNum THEN body.alertThreshold ELSE @,
                 !.category = IF body.category # NoVal THEN body.category ELSE @]
        w == ComputeWindow(body.period, t)
    IN  \* the comparison reads budget.period after the assignment above
        IF body.period # NoVal /\ body.period # b1.period
        THEN [b1 EXCEPT !.startDate = w.startDate, !.endDate = w.endDate]
        ELSE b1

\* PUT /api/budget/:id
UpdateBudget(u, id, body, okCalls) ==
    IF ~ValidBudgetBody(body)
    THEN /\ resp' = Respond("updateBudget", 400, NoDocs)
         /\ UNCHANGED <<records, budgets, nextRecordId, nextBudgetId, now, inflight>>
    ELSE IF id \notin DOMAIN budgets \/ budgets[id].user # u
    THEN /\ resp' = Respond("updateBudget", 404, NoDocs)
         /\ UNCHANGED <<records, budgets, nextRecordId, nextBudgetId, now, inflight>>
    ELSE LET bud1 == [budgets EXCEPT ![id] = ApplyBudgetUpdate(budgets[id], body, now)]
         IN  /\ budgets' = ReconcileAll(bud1, records, <<id>>, okCalls)
             /\ resp' = Respond("updateBudget", IF okCalls < 1 THEN 500 ELSE 200, NoDocs)
             /\ UNCHANGED <<records, nextRecordId, nextBudgetId, now, inflight>>

\* DELETE /api/budget/:id
DeleteBudget(u, id) ==
    IF id \notin DOMAIN budgets \/ budgets[id].user # u
    THEN /\ resp' = Respond("deleteBudget", 404, NoDocs)
         /\ UNCHANGED <<records, budgets, nextRecordId, nextBudgetId, now, inflight>>
    ELSE /\ budgets' = [x \in DOMAIN budgets \ {id} |-> budgets[x]]
         /\ resp' = Respond("deleteBudget", 200, NoDocs)
         /\ UNCHANGED <<records, nextRecordId, nextBudgetId, now, inflight>>

\* A toggle that looks the budget up by id alone (what C17 rules out)
ToggleAnyBudget(u, id) ==
    IF id \notin DOMAIN budgets
    THEN /\ resp' = Respond("toggleBudgetActive", 404, NoDocs)
         /\ UNCHANGED <<records, budgets, nextRecordId, nextBudgetId, now, inflight>>
    ELSE /\ budgets' = [budgets EXCEPT ![id].isActive = ~@]
         /\ resp' = Respond("toggleBudgetActive", 200, NoDocs)
         /\ UNCHANGED <<records, nextRecordId, nextBudgetId, now, inflight>>

\* A toggle that only ever deactivates (what C31 rules out)
ToggleBudgetOff(u, id) ==
    IF id \notin DOMAIN budgets \/ budgets[id].user # u
    THEN /\ resp' = Respond("toggleBudgetActive", 404, NoDocs)
         /\ UNCHANGED <<records, budgets, nextRecordId, nextBudgetId, now, inflight>>
    ELSE /\ budgets' = [budgets EXCEPT ![id].isActive = FALSE]
         /\ resp' = Respond("toggleBudgetActive", 200, NoDocs)
         /\ UNCHANGED <<records, nextRecordId, nextBudgetId, now, inflight>>

\* PATCH /api/budget/:id/toggle
ToggleBudgetActive(u, id) ==
    IF id \notin DOMAIN budgets \/ budgets[id].user # u
    THEN /\ resp' = Respond("toggleBudgetActive", 404, NoDocs)
         /\ UNCHANGED <<records, budgets, nextRecordId, nextBudgetId, now, inflight>>
    ELSE /\ budgets' = [budgets EXCEPT ![id].isActive = ~@]
         /\ resp' = Respond("toggleBudgetActive", 200, NoDocs)
         /\ UNCHANGED <<records, nextRecordId, nextBudgetId, now, inflight>>

----------------------------------------------------------------------------
(* The requests clients send, one at a time *)

\* Instants the server clock passes through: a Wednesday in mid March 2024
\* and the last day of that month
ClockSamples ==
    {MakeDate(2024, 2, 13, TimeOfDay.noon), MakeDate(2024, 2, 31, TimeOfDay.noon)}

\* Request bodies: every combination of the given field values
RecordBodies(amounts, categories, dates, owners) ==
    [amount : amounts, type : Types, category : categories, date : dates, user : owners]

BudgetBodies(categories, amounts, periods, thresholds) ==
    [category : categories, budgetAmount : amounts, period : periods,
     alertThreshold : thresholds]

Idle == [pc |-> "idle"]

Init ==
    /\ records = << >>
    /\ budgets = << >>
    /\ nextRecordId = 0
    /\ nextBudgetId = 0
    /\ now = MakeDate(2024, 2, 13, TimeOfDay.noon)
    /\ resp = Respond("none", 0, NoDocs)
    /\ inflight = [p \in Clients |-> Idle]

\* Time passes between requests
Tick ==
    /\ \E t \in ClockSamples : t > now /\ now' = t
    /\ UNCHANGED <<records, budgets, nextRecordId, nextBudgetId, resp, inflight>>

\* The record requests of users U with bodies RB, where the aggregation
\* succeeds exactly okCalls \in OK times within a request
RecordRequests(U, RB, OK) ==
    \/ \E u \in U, body \in RB, okCalls \in OK :
          CreateRecord(u, body, okCalls)
    \/ \E u \in U, id \in 1 .. MaxRecords, body \in RB, okCalls \in OK :
          UpdateRecord(u, id, body, okCalls)
    \/ \E u \in U, id \in 1 .. MaxRecords, okCalls \in OK :
          DeleteRecord(u, id, okCalls)

\* The budget requests of users U with bodies BB
BudgetRequests(U, BB, OK) ==
    \/ \E u \in U, active \in {"true", "false"}, okCalls \in OK :
          ListBudgets(u, active, okCalls)
    \/ \E u \in U, id \in 1 .. MaxBudgets, okCalls \in OK :
          GetBudget(u, id, okCalls)
    \/ \E u \in U, body \in BB, okCalls \in OK :
          CreateBudget(u, body, okCalls)
    \/ \E u \in U, id \in 1 .. MaxBudgets, body \in BB, okCalls \in OK :
          UpdateBudget(u, id, body, okCalls)
    \/ \E u \in U, id \in 1 .. MaxBudgets : DeleteBudget(u, id)
    \/ \E u \in U, id \in 1 .. MaxBudgets : ToggleBudgetActive(u, id)

\* A date outside the week of Init's clock and inside its month
LaterDate == MakeDate(2024, 2, 20, TimeOfDay.midnight)

\* The ledger of user u1: expenses and incomes of two categories, dated now or
\* LaterDate, against weekly budgets of one category
LedgerRecordBodies ==
    RecordBodies({MaxAmount}, {"Food & Dining", "Entertainment"}, {NoNum, LaterDate}, {NoVal})

LedgerBudgetBodies == BudgetBodies({"Food & Dining"}, {MaxAmount}, {"weekly"}, {NoNum})

\* The records of a second user, which would match u1's budgets but for their owner
OtherRecordBodies == RecordBodies({MaxAmount}, {"Food & Dining"}, {NoNum}, {NoVal})

\* The aggregation succeeds on every call
AlwaysOk == {MaxBudgets}

\* Well-formed requests with a working aggregation
Next ==
    \/ RecordRequests({"u1"}, LedgerRecordBodies, AlwaysOk)
    \/ RecordRequests({"u2"}, OtherRecordBodies, AlwaysOk)
    \/ BudgetRequests(Users, LedgerBudgetBodies, AlwaysOk)

Spec == Init /\ [][Next]_vars

----------------------------------------------------------------------------
(* Claims about the ledger *)

\* The sum of amount over the expense records of user u and category c dated
\* within [from, to], in the record collection recs
ExpenseSum(recs, u, c, from, to) ==
    SumAmounts(recs, {id \in DOMAIN recs :
                         /\ recs[id].user = u
                         /\ recs[id].type = "expense"
                         /\ recs[id].category = c
                         /\ from <= recs[id].date
                         /\ recs[id].date <= to})

\* Budget id of collection bud holds the windowed sum of its owner's expenses
\* of its category in recs
Reconciled(bud, recs, id) ==
    bud[id].spentAmount =
        ExpenseSum(recs, bud[id].user, bud[id].category, bud[id].startDate, bud[id].endDate)

\* C1: a listBudgets or getBudget request that succeeds returns, for every
\* category-scoped budget, a spentAmount equal to the sum of the owner's
\* current expense records of that category within the budget's window, and
\* the stored budget holds the same value.
C1_ReadReturnsLiveSpent ==
    (resp.op \in {"listBudgets", "getBudget"} /\ resp.status = 200) =>
        \A id \in DOMAIN resp.budgets :
            resp.budgets[id].category # Sentinel =>
                /\ resp.budgets[id].spentAmount =
                      ExpenseSum(records, resp.budgets[id].user, resp.budgets[id].category,
                                 resp.budgets[id].startDate, resp.budgets[id].endDate)
                /\ id \in DOMAIN budgets
                /\ budgets[id].spentAmount = resp.budgets[id].spentAmount

\* C1 witness: a read returned a budget with a positive spentAmount while an
\* expense of its category is left out of it, being dated outside the window
\* or owned by another user
C1_Witness ==
    /\ resp.op \in {"listBudgets", "getBudget"}
    /\ resp.status = 200
    /\ \E id \in DOMAIN resp.budgets :
          /\ resp.budgets[id].category # Sentinel
          /\ resp.budgets[id].spentAmount > 0
          /\ \E r \in DOMAIN records :
                /\ records[r].type = "expense"
                /\ records[r].category = resp.budgets[id].category
                /\ \/ records[r].user # resp.budgets[id].user
                   \/ records[r].date > resp.budgets[id].endDate

\* The active budgets of user u and category c in collection bud
ActiveOf(bud, u, c) ==
    {b \in DOMAIN bud : bud[b].user = u /\ bud[b].category = c /\ bud[b].isActive = TRUE}

LedgerUpdates ==
    {x \in [u : Users, id : 1 .. MaxRecords,
            body : LedgerRecordBodies \cup OtherRecordBodies, okCalls : AlwaysOk] : TRUE}

\* C4: after an updateRecord request completes, the active budgets of the
\* record's old category (when the old type was expense) and of its new
\* category (when the new type is expense) hold the windowed sum of the
\* owner's expense records of their category.
C4_UpdateReconcilesOldAndNew ==
    [][\A x \in LedgerUpdates :
          (/\ resp'.op = "updateRecord"
           /\ UpdateRecord(x.u, x.id, x.body, x.okCalls)
           /\ resp'.status = 200) =>
              /\ records[x.id].type = "expense" =>
                    \A b \in ActiveOf(budgets', x.u, records[x.id].category) :
                        Reconciled(budgets', records', b)
              /\ records'[x.id].type = "expense" =>
                    \A b \in ActiveOf(budgets', x.u, records'[x.id].category) :
                        Reconciled(budgets', records', b)]_vars

\* C5: after a createRecord request for an expense completes, the user's active
\* budget of that category whose window contains the record's date holds the
\* windowed sum including the new record; the request succeeds whether or not
\* such a budget exists.
C5_CreateReconcilesBudget ==
    [][\A u \in Users, body \in LedgerRecordBodies \cup OtherRecordBodies, okCalls \in AlwaysOk :
          (/\ resp'.op = "createRecord"
           /\ CreateRecord(u, body, okCalls)
           /\ body.type = "expense") =>
              /\ resp'.status = 201
              /\ nextRecordId' \in DOMAIN records'
              /\ \A b \in ActiveOf(budgets', u, body.category) :
                    (/\ budgets'[b].startDate <= records'[nextRecordId'].date
                     /\ records'[nextRecordId'].date <= budgets'[b].endDate)
                    => Reconciled(budgets', records', b)]_vars

\* C6: after a deleteRecord request for an expense completes, the record is
\* gone and the user's active budget of the record's category holds the
\* windowed sum of the remaining matching expenses; a getBudget of a budget
\* with no matching expense left reports spentAmount 0 and status "good".
C6_DeleteReconcilesBudget ==
    [][/\ \A u \in Users, id \in 1 .. MaxRecords, okCalls \in AlwaysOk :
             (/\ resp'.op = "deleteRecord"
              /\ DeleteRecord(u, id, okCalls)
              /\ resp'.status = 200
              /\ records[id].type = "expense") =>
                 /\ id \notin DOMAIN records'
                 /\ \A b \in ActiveOf(budgets', u, records[id].category) :
                       Reconciled(budgets', records', b)
       /\ \A u \in Users, id \in 1 .. MaxBudgets, okCalls \in AlwaysOk :
             (/\ resp'.op = "getBudget"
              /\ GetBudget(u, id, okCalls)
              /\ resp'.status = 200
              /\ ExpenseSum(records, budgets[id].user, budgets[id].category,
                               budgets[id].startDate, budgets[id].endDate) = 0) =>
                 /\ resp'.budgets[id].spentAmount = 0
                 /\ Status(resp'.budgets[id]) = "good"]_vars

\* C7: when updateRecord moves an expense from category A, which has an active
\* budget whose window contains the record's date, to category B, which has no
\* budget, the A budget's stored spentAmount drops by exactly the record's
\* amount and no other budget changes.
C7_MoveOutLowersSpent ==
    [][\A x \in LedgerUpdates :
          (/\ resp'.op = "updateRecord"
           /\ UpdateRecord(x.u, x.id, x.body, x.okCalls)
           /\ resp'.status = 200
           /\ records[x.id].type = "expense"
           /\ records[x.id].category # x.body.category
           /\ ~\E b \in DOMAIN budgets :
                  budgets[b].user = x.u /\ budgets[b].category = x.body.category) =>
              \A a \in ActiveOf(budgets, x.u, records[x.id].category) :
                  (/\ budgets[a].startDate <= records[x.id].date
                   /\ records[x.id].date <= budgets[a].endDate) =>
                      /\ a \in DOMAIN budgets'
                      /\ budgets'[a].spentAmount = budgets[a].spentAmount - records[x.id].amount
                      /\ \A o \in DOMAIN budgets \ {a} :
                            o \in DOMAIN budgets' /\ budgets'[o] = budgets[o]]_vars

----------------------------------------------------------------------------
(* Budget administration: two users managing budgets of two categories and two
   periods, next to a few matching records of one of them *)

AdminBudgetBodies ==
    BudgetBodies({"Food & Dining", Sentinel}, {MaxAmount}, {"weekly", "monthly"}, {NoNum})

\* Expenses that match the "Food & Dining" budgets of their owner
MatchingExpenses == {body \in OtherRecordBodies : body.type = "expense"}

NextBudgets ==
    \/ RecordRequests({"u1"}, MatchingExpenses, AlwaysOk)
    \/ BudgetRequests(Users, AdminBudgetBodies, AlwaysOk)

SpecBudgets == Init /\ [][NextBudgets]_vars

\* C8: each (user, category) pair has at most one budget with isActive = true,
\* after any sequence of createBudget, updateBudget, toggleBudgetActive and
\* deleteBudget requests.
C8_OneActiveBudgetPerCategory ==
    \A a, b \in DOMAIN budgets :
        (/\ budgets[a].user = budgets[b].user
         /\ budgets[a].category = budgets[b].category
         /\ budgets[a].isActive
         /\ budgets[b].isActive) => a = b

----------------------------------------------------------------------------
(* The reconciler on its own: one stale budget of user u1, of any period and
   of a plain or the sentinel category, and records of both users dated on and
   around the ends of its window; the read handlers then reconcile it *)

\* A spentAmount no set of MaxRecords records adds up to
StaleAmount == MaxRecords * MaxAmount + 1

\* The instants on and next to the ends of a window
EdgeDates(b) == {b.startDate - 1, b.startDate, b.endDate, b.endDate + 1}

InitReconcile ==
    /\ now = MakeDate(2024, 2, 13, TimeOfDay.noon)
    /\ \E body \in BudgetBodies({"Food & Dining", Sentinel}, {MaxAmount}, Periods, {NoNum}) :
          LET b == [NewBudget("u1", body, now) EXCEPT !.spentAmount = StaleAmount]
          IN  /\ budgets = [id \in {1} |-> b]
              /\ \E n \in 0 .. MaxRecords :
                    /\ nextRecordId = n
                    /\ records \in [1 .. n ->
                                      [user : Users, type : Types,
                                       category : {"Food & Dining", Sentinel},
                                       date : EdgeDates(b), amount : 1 .. MaxAmount]]
    /\ nextBudgetId = 1
    /\ resp = Respond("none", 0, NoDocs)
    /\ inflight = [p \in Clients |-> Idle]

NextReconcile ==
    \/ \E u \in Users, active \in {"true", "false"}, okCalls \in AlwaysOk :
          ListBudgets(u, active, okCalls)
    \/ \E u \in Users, id \in 1 .. MaxBudgets, okCalls \in AlwaysOk :
          GetBudget(u, id, okCalls)

SpecReconcile == InitReconcile /\ [][NextReconcile]_vars

\* The records reconcile counts for budget b: the budget's user's expenses of
\* the budget's category dated from startDate to endDate, both included
Counted(b) ==
    {r \in DOMAIN records :
        /\ records[r].user = b.user
        /\ records[r].type = "expense"
        /\ records[r].category = b.category
        /\ ~(records[r].date < b.startDate)
        /\ ~(records[r].date > b.endDate)}

\* C2: reconcile of a budget whose category is not the sentinel stores exactly
\* the sum of amount over the budget's user's expense records of the budget's
\* category dated within [startDate, endDate], ends included, and 0 when no
\* record matches; incomes, other users' records and other categories add
\* nothing.
C2_ReconcileStoresWindowedSum ==
    \A id \in DOMAIN resp.budgets :
        (resp.status = 200 /\ budgets[id].category # Sentinel) =>
            /\ budgets[id].spentAmount = SumAmounts(records, Counted(budgets[id]))
            /\ Counted(budgets[id]) = {} => budgets[id].spentAmount = 0

\* C2 witness: a reconciled budget counts a record dated exactly at its
\* startDate or endDate while a record of the same category and type is left
\* out for its owner or for lying one instant outside the window
C2_Witness ==
    \E id \in DOMAIN resp.budgets :
        /\ resp.status = 200
        /\ budgets[id].category # Sentinel
        /\ \E r \in Counted(budgets[id]) :
              records[r].date \in {budgets[id].startDate, budgets[id].endDate}
        /\ \E r \in DOMAIN records \ Counted(budgets[id]) :
              /\ records[r].type = "expense"
              /\ records[r].category = budgets[id].category
        /\ budgets[id].spentAmount > 0

\* C3: reconcile of an "Overall Budget" stores the user's all-time total of
\* expense amounts across all categories, whatever the budget's window, which
\* is getBalance(user).expense.
C3_SentinelReconcileIsAllTimeExpense ==
    \A id \in DOMAIN resp.budgets :
        (resp.status = 200 /\ budgets[id].category = Sentinel) =>
            budgets[id].spentAmount = GetUserBalance(records, budgets[id].user).expense

----------------------------------------------------------------------------
(* POST /api/budget as the awaits split it: each client's handler runs its
   findOne, its Budget.create, its aggregate and its save as separate steps,
   and the steps of the two clients interleave *)

ConcBudgetBodies == BudgetBodies({"Food & Dining", Sentinel}, {MaxAmount}, {"weekly", "monthly"}, {NoNum})

\* validation, then await Budget.findOne({user, category, isActive: true})
CreateBudgetFind(p, u, body) ==
    /\ inflight[p].pc = "idle"
    /\ ValidBudgetBody(body)
    /\ IF ActiveBudgets(budgets, u, body.category) # {}
       THEN /\ inflight' = [inflight EXCEPT ![p] = [pc |-> "done", user |-> u, body |-> body,
                                                     id |-> 0, total |-> 0, status |-> 400]]
            /\ resp' = Respond("createBudget", 400, NoDocs)
       ELSE /\ inflight' = [inflight EXCEPT ![p] = [pc |-> "found", user |-> u, body |-> body,
                                                     id |-> 0, total |-> 0, status |-> 0]]
            /\ UNCHANGED resp
    /\ UNCHANGED <<records, budgets, nextRecordId, nextBudgetId, now>>

\* the window from the clock, then await Budget.create({...})
CreateBudgetInsert(p) ==
    /\ inflight[p].pc = "found"
    /\ nextBudgetId < MaxBudgets
    /\ LET id == nextBudgetId + 1
       IN  /\ nextBudgetId' = id
           /\ budgets' = [x \in DOMAIN budgets \cup {id} |->
                             IF x = id THEN NewBudget(inflight[p].user, inflight[p].body, now)
                             ELSE budgets[x]]
           /\ inflight' = [inflight EXCEPT ![p].pc = "created", ![p].id = id]
    /\ UNCHANGED <<records, nextRecordId, now, resp>>

\* await budget.updateSpentAmount(): the aggregate
CreateBudgetAggregate(p) ==
    /\ inflight[p].pc = "created"
    /\ inflight' = [inflight EXCEPT ![p].pc = "summed",
                                    ![p].total = SpentTotal(budgets[inflight[p].id], records)]
    /\ UNCHANGED <<records, budgets, nextRecordId, nextBudgetId, now, resp>>

\* await budget.updateSpentAmount(): the save, then the 201 response
CreateBudgetSave(p) ==
    /\ inflight[p].pc = "summed"
    /\ budgets' = [budgets EXCEPT ![inflight[p].id].spentAmount = inflight[p].total]
    /\ inflight' = [inflight EXCEPT ![p].pc = "done", ![p].status = 201]
    /\ resp' = Respond("createBudget", 201, NoDocs)
    /\ UNCHANGED <<records, nextRecordId, nextBudgetId, now>>

NextConc ==
    \/ \E p \in Clients, u \in Users, body \in ConcBudgetBodies : CreateBudgetFind(p, u, body)
    \/ \E p \in Clients : CreateBudgetInsert(p)
    \/ \E p \in Clients : CreateBudgetAggregate(p)
    \/ \E p \in Clients : CreateBudgetSave(p)
    \/ \E body \in MatchingExpenses, okCalls \in AlwaysOk : CreateRecord("u1", body, okCalls)
    \/ Tick

SpecConc == Init /\ [][NextConc]_vars

\* C10: when two createBudget requests for the same user and category run
\* concurrently, their existence checks and inserts interleaved in any order,
\* at most one of them creates a budget, so after both have completed the
\* user still has a single active budget of that category.
C10_ConcurrentCreateOneWins ==
    \A p, q \in Clients :
        (/\ p # q
         /\ inflight[p].pc = "done"
         /\ inflight[q].pc = "done"
         /\ inflight[p].user = inflight[q].user
         /\ inflight[p].body.category = inflight[q].body.category) =>
            /\ ~(inflight[p].status = 201 /\ inflight[q].status = 201)
            /\ Cardinality(ActiveOf(budgets, inflight[p].user, inflight[p].body.category)) <= 1

----------------------------------------------------------------------------
(* POST /api/records as the awaits split it: FinancialRecord.create, the
   Budget.findOne that loads the budget document, the aggregate and the save
   of updateSpentAmount are separate steps, and two clients' steps interleave *)

\* A save that keeps the larger of the stored and the computed sum (what C11 rules out)
SavedSpentMerged(stored, loaded, total) ==
    IF total > stored THEN total ELSE stored

\* this.spentAmount = total; this.save(): the document writes spentAmount when
\* the assignment changed the value it was loaded with, and nothing otherwise
SavedSpent(stored, loaded, total) ==
    IF total = loaded THEN stored ELSE total

\* await FinancialRecord.create({...req.body, user})
CreateRecordInsert(p, u, body) ==
    /\ inflight[p].pc \in {"idle", "done"}
    /\ ValidRecordBody(body)
    /\ nextRecordId < MaxRecords
    /\ LET id == nextRecordId + 1
           record == [user     |-> u,
                      type     |-> body.type,
                      category |-> body.category,
                      date     |-> IF body.date = NoNum THEN now ELSE body.date,
                      amount   |-> body.amount]
       IN  /\ nextRecordId' = id
           /\ records' = [x \in DOMAIN records \cup {id} |->
                             IF x = id THEN record ELSE records[x]]
           /\ inflight' = [inflight EXCEPT ![p] = [pc |-> "inserted", user |-> u, record |-> record,
                                                    id |-> 0, loaded |-> 0, total |-> 0,
                                                    status |-> 0]]
    /\ UNCHANGED <<budgets, nextBudgetId, now, resp>>

\* if (record.type === 'expense') await Budget.findOne({...}); 201 when it
\* does not apply or finds none
CreateRecordFind(p) ==
    /\ inflight[p].pc = "inserted"
    /\ LET record == inflight[p].record
           found == IF record.type = "expense"
                    THEN FindOne(ActiveBudgetsAt(budgets, inflight[p].user,
                                                 record.category, record.date))
                    ELSE {0}
       IN  \E budget \in found :
              IF budget = 0
              THEN /\ inflight' = [inflight EXCEPT ![p].pc = "done", ![p].status = 201]
                   /\ resp' = Respond("createRecord", 201, NoDocs)
              ELSE /\ inflight' = [inflight EXCEPT ![p].pc = "loaded", ![p].id = budget,
                                                   ![p].loaded = budgets[budget].spentAmount]
                   /\ UNCHANGED resp
    /\ UNCHANGED <<records, budgets, nextRecordId, nextBudgetId, now>>

\* await budget.updateSpentAmount(): the aggregate
CreateRecordAggregate(p) ==
    /\ inflight[p].pc = "loaded"
    /\ inflight' = [inflight EXCEPT ![p].pc = "summed",
                                    ![p].total = SpentTotal(budgets[inflight[p].id], records)]
    /\ UNCHANGED <<records, budgets, nextRecordId, nextBudgetId, now, resp>>

\* await budget.updateSpentAmount(): the save, then the 201 response
CreateRecordSave(p) ==
    /\ inflight[p].pc = "summed"
    /\ budgets' = [budgets EXCEPT ![inflight[p].id].spentAmount =
                      SavedSpent(@, inflight[p].loaded, inflight[p].total)]
    /\ inflight' = [inflight EXCEPT ![p].pc = "done", ![p].status = 201]
    /\ resp' = Respond("createRecord", 201, NoDocs)
    /\ UNCHANGED <<records, nextRecordId, nextBudgetId, now>>

RaceRecordBodies == RecordBodies(1 .. MaxAmount, {"Food & Dining"}, {NoNum, LaterDate}, {NoVal})

NextRace ==
    \/ \E p \in Clients, body \in RaceRecordBodies : CreateRecordInsert(p, "u1", body)
    \/ \E p \in Clients : CreateRecordFind(p)
    \/ \E p \in Clients : CreateRecordAggregate(p)
    \/ \E p \in Clients : CreateRecordSave(p)
    \/ \E body \in LedgerBudgetBodies, okCalls \in AlwaysOk : CreateBudget("u1", body, okCalls)

SpecRace == Init /\ [][NextRace]_vars

\* The clients whose request takes its save step in the current step
Saving(b) ==
    {p \in Clients : /\ inflight[p].pc = "summed"
                     /\ inflight'[p].pc = "done"
                     /\ inflight[p].id = b}

\* C11: with the aggregate reads and the saves of two reconciles of one budget
\* interleaved, every sum a reconcile holds is the windowed sum of the records
\* as they stood at its read, a stored spentAmount changes only in a save, and
\* a save that writes leaves exactly its own sum in the store: the last writer
\* wins and no other value is ever stored.
C11_LastWriterWins ==
    [][/\ \A p \in Clients :
             (inflight[p].pc = "loaded" /\ inflight'[p].pc = "summed") =>
                 inflight'[p].total =
                     ExpenseSum(records, budgets[inflight[p].id].user,
                                budgets[inflight[p].id].category,
                                budgets[inflight[p].id].startDate,
                                budgets[inflight[p].id].endDate)
       /\ \A b \in DOMAIN budgets :
             /\ b \in DOMAIN budgets'
             /\ budgets'[b].spentAmount # budgets[b].spentAmount =>
                   \E p \in Saving(b) : budgets'[b].spentAmount = inflight[p].total
             /\ \A p \in Saving(b) :
                   inflight[p].total # inflight[p].loaded =>
                       budgets'[b].spentAmount = inflight[p].total]_vars

\* C11 witness: both clients have completed a reconcile of one budget with
\* different sums, and the store holds the smaller one, which is not the
\* windowed sum of the records now stored
C11_Witness ==
    \E p, q \in Clients :
        /\ p # q
        /\ inflight[p].pc = "done"
        /\ inflight[q].pc = "done"
        /\ inflight[p].id # 0
        /\ inflight[p].id = inflight[q].id
        /\ inflight[p].total < inflight[q].total
        /\ budgets[inflight[p].id].spentAmount = inflight[p].total
        /\ ~Reconciled(budgets, records, inflight[p].id)

----------------------------------------------------------------------------
(* Claims about the window of a budget *)

\* C12: an updateBudget whose period differs from the stored period leaves the
\* budget with the window createBudget computes for the new period at the
\* current instant; an updateBudget with the stored period leaves startDate
\* and endDate as they were.
C12_UpdateRecomputesWindow ==
    [][\A u \in Users, id \in 1 .. MaxBudgets, body \in AdminBudgetBodies, okCalls \in AlwaysOk :
          (/\ resp'.op = "updateBudget"
           /\ UpdateBudget(u, id, body, okCalls)
           /\ resp'.status = 200) =>
              IF body.period # budgets[id].period
              THEN /\ budgets'[id].period = body.period
                   /\ budgets'[id].startDate = ComputeWindow(body.period, now).startDate
                   /\ budgets'[id].endDate = ComputeWindow(body.period, now).endDate
              ELSE /\ budgets'[id].startDate = budgets[id].startDate
                   /\ budgets'[id].endDate = budgets[id].endDate]_vars

\* Budgets created at any instant of the calendar's years, the clock standing
\* still afterwards
Instants == 0 .. (DaysBeforeYear(FirstYear + Cardinality(Years)) * TicksPerDay - 1)

WindowBudgetBodies == BudgetBodies({"Food & Dining", Sentinel}, {MaxAmount}, Periods, {NoNum})

InitWindow ==
    /\ now \in Instants
    /\ records = << >>
    /\ budgets = << >>
    /\ nextRecordId = 0
    /\ nextBudgetId = 0
    /\ resp = Respond("none", 0, NoDocs)
    /\ inflight = [p \in Clients |-> Idle]

NextWindow ==
    \E body \in WindowBudgetBodies, okCalls \in AlwaysOk : CreateBudget("u1", body, okCalls)

SpecWindow == InitWindow /\ [][NextWindow]_vars

\* The day of the month a month ends on
LastDayOfMonth(y, m0) ==
    CASE m0 = 1 -> IF y % 4 = 0 /\ (y % 100 # 0 \/ y % 400 = 0) THEN 29 ELSE 28
      [] m0 \in {3, 5, 8, 10} -> 30
      [] OTHER -> 31

\* C13: a budget created at instant now has, for weekly, a startDate on the
\* most recent Sunday on or before now and an endDate 6 days later; for
\* monthly, the first and the last day of now's month; for yearly, 1 January
\* and 31 December of now's year; and startDate <= endDate in all cases.
C13_CreateWindow ==
    \A b \in DOMAIN budgets :
        LET s == budgets[b].startDate
            e == budgets[b].endDate
        IN  /\ s <= e
            /\ budgets[b].period = "weekly" =>
                  /\ GetDay(s) = 0
                  /\ DayOf(s) <= DayOf(now)
                  /\ DayOf(now) - DayOf(s) < 7
                  /\ e - s = 6 * TicksPerDay
            /\ budgets[b].period = "monthly" =>
                  /\ GetFullYear(s) = GetFullYear(now) /\ GetMonth(s) = GetMonth(now)
                  /\ GetDate(s) = 1
                  /\ GetFullYear(e) = GetFullYear(now) /\ GetMonth(e) = GetMonth(now)
                  /\ GetDate(e) = LastDayOfMonth(GetFullYear(now), GetMonth(now))
            /\ budgets[b].period = "yearly" =>
                  /\ GetFullYear(s) = GetFullYear(now) /\ GetMonth(s) = 0 /\ GetDate(s) = 1
                  /\ GetFullYear(e) = GetFullYear(now) /\ GetMonth(e) = 11 /\ GetDate(e) = 31

\* C13 witness: on 29 February of a leap year, a monthly budget ending that
\* day next to a weekly budget whose week runs into March
C13_Witness ==
    /\ GetMonth(now) = 1
    /\ GetDate(now) = 29
    /\ \E a, b \in DOMAIN budgets :
          /\ budgets[a].period = "monthly"
          /\ DayOf(budgets[a].endDate) = DayOf(now)
          /\ budgets[b].period = "weekly"
          /\ budgets[b].endDate > budgets[a].endDate

----------------------------------------------------------------------------
(* Failures and rejections: the aggregation may fail at any of a request's
   reconciles, and users send malformed bodies and ids of their own, of the
   other user and of nothing *)

ErrorRecordBodies ==
    RecordBodies({0, MaxAmount}, {"Food & Dining"}, {NoNum}, {NoVal})
        \cup [amount : {MaxAmount}, type : {"transfer"}, category : {"Food & Dining"},
              date : {NoNum}, user : {NoVal}]

\* The well-formed bodies among ErrorRecordBodies
GoodRecordBodies == {body \in ErrorRecordBodies : body.amount > 0 /\ body.type \in Types}

\* The aggregate calls of a request that succeed before one fails
FaultOk == 0 .. MaxBudgets

ErrorBudgetBodies ==
    BudgetBodies({"Food & Dining"}, {MaxAmount}, {"weekly", "monthly"}, {NoNum})

\* One user's well-formed requests over a failing aggregation
NextErrors ==
    \/ RecordRequests({"u1"}, GoodRecordBodies, FaultOk)
    \/ BudgetRequests({"u1"}, ErrorBudgetBodies, FaultOk)

SpecErrors == Init /\ [][NextErrors]_vars

\* Both users' requests, well-formed or not, over a working aggregation
NextRejects ==
    \/ RecordRequests(Users, ErrorRecordBodies, AlwaysOk)
    \/ \E u \in Users, id \in 1 .. MaxRecords : GetRecord(u, id)
    \/ BudgetRequests(Users, LedgerBudgetBodies, AlwaysOk)

SpecRejects == Init /\ [][NextRejects]_vars

\* C14: when the aggregation fails during the reconcile of a createRecord,
\* updateRecord or deleteRecord, the record write stays committed and the
\* caller still receives the operation's success response.
C14_ReconcileFailureSwallowed ==
    [][\A u \in {"u1"}, okCalls \in FaultOk :
          /\ \A body \in GoodRecordBodies :
                (resp'.op = "createRecord" /\ CreateRecord(u, body, okCalls)) =>
                    /\ nextRecordId' \in DOMAIN records'
                    /\ resp'.status = 201
          /\ \A id \in DOMAIN records, body \in GoodRecordBodies :
                (/\ resp'.op = "updateRecord"
                 /\ records[id].user = u
                 /\ UpdateRecord(u, id, body, okCalls)) =>
                    /\ records'[id].amount = body.amount
                    /\ records'[id].type = body.type
                    /\ resp'.status = 200
          /\ \A id \in DOMAIN records :
                (/\ resp'.op = "deleteRecord"
                 /\ records[id].user = u
                 /\ DeleteRecord(u, id, okCalls)) =>
                    /\ id \notin DOMAIN records'
                    /\ resp'.status = 200]_vars

\* Budget b is in bud1 what it was in bud0, or that with spentAmount
\* reconciled against recs
KeptOrReconciled(bud0, bud1, recs, b) ==
    \/ bud1[b] = bud0[b]
    \/ bud1[b] = [bud0[b] EXCEPT !.spentAmount =
                     ExpenseSum(recs, bud0[b].user, bud0[b].category,
                                bud0[b].startDate, bud0[b].endDate)]

\* C15: a reconcile whose aggregation fails leaves the budget's stored
\* spentAmount and every other stored field of the budget as they were when
\* the reconcile started: a request whose only reconcile failed changes no
\* stored budget beyond its own earlier write, and a request with several
\* reconciles leaves each budget either as it was or correctly reconciled, at
\* least one budget (the one whose reconcile failed) as it was.
C15_FailedReconcileKeepsBudget ==
    [][resp'.status = 500 =>
          /\ resp'.op \in {"getBudget", "createRecord", "deleteRecord"} => budgets' = budgets
          /\ resp'.op \in {"listBudgets", "updateRecord"} =>
                /\ DOMAIN budgets' = DOMAIN budgets
                /\ \A b \in DOMAIN budgets : KeptOrReconciled(budgets, budgets', records', b)
                /\ \E b \in DOMAIN budgets : budgets'[b] = budgets[b]
          /\ resp'.op = "createBudget" =>
                /\ DOMAIN budgets' = DOMAIN budgets \cup {nextBudgetId'}
                /\ budgets'[nextBudgetId'].spentAmount = 0
                /\ \A b \in DOMAIN budgets : budgets'[b] = budgets[b]
          /\ resp'.op = "updateBudget" =>
                /\ DOMAIN budgets' = DOMAIN budgets
                /\ \A b \in DOMAIN budgets :
                      /\ budgets'[b].spentAmount = budgets[b].spentAmount
                      /\ budgets'[b].isActive = budgets[b].isActive
                      /\ budgets'[b].user = budgets[b].user]_vars

\* C15 witness: a read of a budget failed and the stored budget still holds a
\* positive spentAmount that is not the windowed sum of the stored records
C15_Witness ==
    /\ resp.op = "getBudget"
    /\ resp.status = 500
    /\ \E b \in DOMAIN budgets :
          /\ budgets[b].spentAmount > 0
          /\ ~Reconciled(budgets, records, b)

\* C16: when the aggregation fails during the reconcile of a listBudgets or a
\* getBudget, the request still succeeds and returns the budgets with the
\* spentAmount they had stored.
C16_ReadServesCacheOnFailure ==
    [][\A u \in {"u1"}, okCalls \in FaultOk :
          /\ \A id \in DOMAIN budgets :
                (/\ resp'.op = "getBudget"
                 /\ budgets[id].user = u
                 /\ GetBudget(u, id, okCalls)) =>
                    /\ resp'.status = 200
                    /\ okCalls = 0 =>
                          /\ id \in DOMAIN resp'.budgets
                          /\ resp'.budgets[id].spentAmount = budgets[id].spentAmount
          /\ \A active \in {"true", "false"} :
                (resp'.op = "listBudgets" /\ ListBudgets(u, active, okCalls)) =>
                    resp'.status = 200]_vars

C19_StoredRecordsValid ==
    [][/\ \A id \in DOMAIN records' :
             records'[id].amount > 0 /\ records'[id].type \in {"income", "expense"}
       /\ resp'.op \in {"createRecord", "updateRecord"} =>
             \A u \in Users, okCalls \in AlwaysOk, body \in ErrorRecordBodies \ GoodRecordBodies :
                 (\/ resp'.op = "createRecord" /\ CreateRecord(u, body, okCalls)
                  \/ /\ resp'.op = "updateRecord"
                     /\ \E id \in 1 .. MaxRecords : UpdateRecord(u, id, body, okCalls))
                 => (resp'.status = 400 /\ records' = records /\ budgets' = budgets)]_vars

\* C19 witness: a record request was rejected as invalid while records and a
\* budget with a positive spentAmount are stored
C19_Witness ==
    /\ resp.op \in {"createRecord", "updateRecord"}
    /\ resp.status = 400
    /\ records # << >>
    /\ \E b \in DOMAIN budgets : budgets[b].spentAmount > 0

----------------------------------------------------------------------------
(* Isolation: user u1 sends record bodies that carry a user field next to
   user u2's own requests *)

IsolationRecordBodies(u) ==
    IF u = "u1"
    THEN RecordBodies({MaxAmount}, {"Food & Dining"}, {NoNum}, {NoVal, "u2"})
    ELSE OtherRecordBodies

\* The requests issued as user u
RequestsAs(u) ==
    \/ RecordRequests({u}, IsolationRecordBodies(u), AlwaysOk)
    \/ BudgetRequests({u}, LedgerBudgetBodies, AlwaysOk)

NextIsolation == \E u \in Users : RequestsAs(u)

SpecIsolation == Init /\ [][NextIsolation]_vars

\* What user u obtains from getBalance, getMonthlySummary,
\* getCategoryBreakdown, listRecords and listBudgets in the stores recs, bud
Results(recs, bud, u) ==
    [balance   |-> GetUserBalance(recs, u),
     summary   |-> GetMonthlySummary(recs, u, GetFullYear(now), GetMonth(now) + 1),
     breakdown |-> [t \in Types |-> GetCategoryBreakdown(recs, u, t)],
     records   |-> ListRecords(recs, u),
     budgets   |-> {<<id, UpdateSpentAmount(bud[id], recs)>> :
                       id \in {x \in DOMAIN bud : bud[x].user = u}}]

\* C18: for distinct users A and B, no request issued as A, whatever its body,
\* changes what B obtains from getBalance, getMonthlySummary,
\* getCategoryBreakdown, listRecords and listBudgets.
C18_UsersIsolated ==
    [][\A A, B \in Users :
          (A # B /\ RequestsAs(A)) =>
              Results(records', budgets', B) = Results(records, budgets, B)]_vars

----------------------------------------------------------------------------
(* The derived fields: one budget of user u1 of sampled budgetAmount and
   alertThreshold with one expense of a sampled amount in its window, read
   through the overview and the single-budget read *)

SpentSamples == {0, 3, 4, 5, 6, 480, 500, 600, 601}
BudgetAmountSamples == {0, 5, 600}
ThresholdSamples == {0, 80, 100}

InitDerived ==
    /\ now = MakeDate(2024, 2, 13, TimeOfDay.noon)
    /\ \E amount \in SpentSamples, budgetAmount \in BudgetAmountSamples,
          threshold \in ThresholdSamples :
          LET body == [category |-> "Food & Dining", budgetAmount |-> budgetAmount,
                       period |-> "monthly", alertThreshold |-> NoNum]
              b == [NewBudget("u1", body, now) EXCEPT !.spentAmount = amount,
                                                      !.alertThreshold = threshold]
          IN  /\ budgets = [id \in {1} |-> b]
              /\ records = IF amount = 0 THEN << >>
                           ELSE [id \in {1} |->
                                    [user |-> "u1", type |-> "expense",
                                     category |-> "Food & Dining", date |-> now,
                                     amount |-> amount]]
              /\ nextRecordId = IF amount = 0 THEN 0 ELSE 1
    /\ nextBudgetId = 1
    /\ resp = Respond("none", 0, NoDocs)
    /\ inflight = [p \in Clients |-> Idle]

NextDerived ==
    \/ \E u \in Users, okCalls \in AlwaysOk : GetBudgetOverview(u, okCalls)
    \/ \E u \in Users, id \in 1 .. MaxBudgets, okCalls \in AlwaysOk : GetBudget(u, id, okCalls)

SpecDerived == InitDerived /\ [][NextDerived]_vars

\* C20: for every budget, remainingAmount is max(0, budgetAmount -
\* spentAmount); percentageSpent is spentAmount / budgetAmount * 100, and 0
\* when budgetAmount is 0; status is "exceeded" when percentageSpent >= 100,
\* otherwise "warning" when percentageSpent >= alertThreshold, otherwise
\* "good". 500 spent of 600 at threshold 80 is "warning", and a positive
\* budgetAmount spent exactly is "exceeded".
C20_DerivedFields ==
    /\ \A id \in DOMAIN budgets :
          LET b == budgets[id]
              pct == PercentageSpent(b)
          IN  /\ RemainingAmount(b) >= 0
              /\ RemainingAmount(b) >= b.budgetAmount - b.spentAmount
              /\ RemainingAmount(b) \in {0, b.budgetAmount - b.spentAmount}
              /\ pct.den > 0
              /\ b.budgetAmount = 0 => pct.num = 0
              /\ b.budgetAmount # 0 => pct.num * b.budgetAmount = b.spentAmount * 100 * pct.den
    /\ \A id \in DOMAIN resp.budgets :
          resp.op = "budgetOverview" =>
              LET b == resp.budgets[id]
                  pct == IF b.budgetAmount = 0 THEN [num |-> 0, den |-> 1]
                         ELSE [num |-> b.spentAmount * 100, den |-> b.budgetAmount]
              IN  /\ b.status = "exceeded" <=> pct.num >= 100 * pct.den
                  /\ b.status = "warning" <=>
                        (pct.num < 100 * pct.den /\ pct.num >= b.alertThreshold * pct.den)
                  /\ b.status = "good" <=>
                        (pct.num < 100 * pct.den /\ pct.num < b.alertThreshold * pct.den)
                  /\ (b.spentAmount = 500 /\ b.budgetAmount = 600 /\ b.alertThreshold = 80)
                        => b.status = "warning"
                  /\ (b.budgetAmount > 0 /\ b.spentAmount = b.budgetAmount)
                        => b.status = "exceeded"

\* C20 witness: the overview reports a budget of 600 with 500 spent and
\* threshold 80 as "warning"
C20_Witness ==
    /\ resp.op = "budgetOverview"
    /\ \E id \in DOMAIN resp.budgets :
          /\ resp.budgets[id].spentAmount = 500
          /\ resp.budgets[id].budgetAmount = 600
          /\ resp.budgets[id].alertThreshold = 80
          /\ resp.budgets[id].status = "warning"

----------------------------------------------------------------------------
(* Claims about repeated reconciles *)

\* C21: a reconcile of a budget that directly follows a reconcile of the same
\* budget, with no record or budget changed in between, leaves the stored
\* spentAmount the first one left.
C21_ReconcileIdempotent ==
    [][\A id \in DOMAIN budgets :
          (/\ resp.status = 200
           /\ id \in DOMAIN resp.budgets
           /\ resp'.status = 200
           /\ id \in DOMAIN resp'.budgets
           /\ records' = records) =>
              /\ id \in DOMAIN budgets'
              /\ budgets'[id].spentAmount = budgets[id].spentAmount]_vars

\* C21 witness: a read has reconciled a budget from its stale value to a
\* positive sum, leaving the state from which the next read reconciles again
C21_Witness ==
    /\ resp.op = "listBudgets"
    /\ resp.status = 200
    /\ \E id \in DOMAIN resp.budgets :
          /\ budgets[id].spentAmount > 0
          /\ budgets[id].spentAmount # StaleAmount
          /\ Reconciled(budgets, records, id)

----------------------------------------------------------------------------
(* Budget bodies that carry a spentAmount and an alertThreshold, over an
   aggregation that works or fails *)

\* A spentAmount no set of MaxRecords records adds up to
SuppliedSpent == MaxRecords * MaxAmount + 3

FrameBudgetBodies ==
    [category : {"Food & Dining"}, budgetAmount : {MaxAmount}, period : {"weekly"},
     alertThreshold : {NoNum, 0, 50}, spentAmount : {NoNum, SuppliedSpent}]

AllOrNoneOk == {0, MaxBudgets}

NextFrame ==
    \/ RecordRequests({"u1"}, MatchingExpenses, AlwaysOk)
    \/ BudgetRequests({"u1"}, FrameBudgetBodies, AllOrNoneOk)

SpecFrame == Init /\ [][NextFrame]_vars

\* C22: a spentAmount in the body of createBudget or updateBudget never
\* reaches the store: after a request that succeeds the budget holds the
\* windowed sum of the records, and after one whose reconcile failed it holds
\* 0 (create) or the value stored before (update).
C22_BodySpentAmountIgnored ==
    [][\A body \in FrameBudgetBodies, okCalls \in AllOrNoneOk :
          /\ (resp'.op = "createBudget" /\ resp'.status # 400 /\ CreateBudget("u1", body, okCalls)) =>
                /\ nextBudgetId' \in DOMAIN budgets'
                /\ IF resp'.status = 201
                   THEN Reconciled(budgets', records', nextBudgetId')
                   ELSE budgets'[nextBudgetId'].spentAmount = 0
          /\ \A id \in DOMAIN budgets :
                (resp'.op = "updateBudget" /\ UpdateBudget("u1", id, body, okCalls)) =>
                    IF resp'.status = 200
                    THEN Reconciled(budgets', records', id)
                    ELSE budgets'[id].spentAmount = budgets[id].spentAmount]_vars

\* C22 witness: budget requests have been answered while a stored budget holds
\* a positive reconciled sum, the bodies offering another spentAmount
C22_Witness ==
    /\ resp.op \in {"createBudget", "updateBudget"}
    /\ resp.status \in {200, 201}
    /\ \E id \in DOMAIN budgets :
          /\ budgets[id].spentAmount > 0
          /\ budgets[id].spentAmount # SuppliedSpent
          /\ Reconciled(budgets, records, id)

\* C30: createBudget stores the alertThreshold of the body for every value in
\* 0..100 and 80 only when the body has none; updateBudget stores the value of
\* the body likewise.
C30_ThresholdStoredAsSupplied ==
    [][\A body \in FrameBudgetBodies, okCalls \in AllOrNoneOk :
          /\ (resp'.op = "createBudget" /\ resp'.status # 400 /\ CreateBudget("u1", body, okCalls)) =>
                budgets'[nextBudgetId'].alertThreshold =
                    IF body.alertThreshold = NoNum THEN 80 ELSE body.alertThreshold
          /\ \A id \in DOMAIN budgets :
                (resp'.op = "updateBudget" /\ UpdateBudget("u1", id, body, okCalls)) =>
                    budgets'[id].alertThreshold =
                        IF body.alertThreshold = NoNum THEN budgets[id].alertThreshold
                        ELSE body.alertThreshold]_vars

----------------------------------------------------------------------------
(* Claims about what a record update may touch *)

\* C29: updateRecord never changes the id or the owner of the record it
\* updates, whatever fields the body carries: the record is still stored under
\* its id and still belongs to the caller.
C29_UpdateKeepsIdAndOwner ==
    [][\A u \in Users :
          resp'.op = "updateRecord" =>
              \A id \in DOMAIN records, body \in IsolationRecordBodies(u) :
                  (resp'.status = 200 /\ UpdateRecord(u, id, body, MaxBudgets)) =>
                      /\ id \in DOMAIN records'
                      /\ records'[id].user = records[id].user]_vars

----------------------------------------------------------------------------
(* Claims about the instants a budget window covers *)

\* The first and the last instant of the week, month or year that holds t
PeriodOf(period, t) ==
    LET y == GetFullYear(t)
        m == GetMonth(t)
        sunday == DayOf(t) - GetDay(t)
    IN  CASE period = "weekly" ->
                [first |-> sunday * TicksPerDay,
                 last  |-> (sunday + 6) * TicksPerDay + TimeOfDay.lastMilli]
          [] period = "monthly" ->
                [first |-> MakeDate(y, m, 1, TimeOfDay.midnight),
                 last  |-> MakeDate(y, m, LastDayOfMonth(y, m), TimeOfDay.lastMilli)]
          [] OTHER ->
                [first |-> MakeDate(y, 0, 1, TimeOfDay.midnight),
                 last  |-> MakeDate(y, 11, 31, TimeOfDay.lastMilli)]

\* C28: for a budget created at instant now, every instant of the week, month
\* or year that holds now lies within [startDate, endDate], the last day of
\* the period at any time of day included, and so does now itself.
C28_WindowCoversPeriod ==
    \A b \in DOMAIN budgets :
        LET p == PeriodOf(budgets[b].period, now)
        IN  /\ budgets[b].startDate <= p.first
            /\ p.last <= budgets[b].endDate
            /\ budgets[b].startDate <= now
            /\ now <= budgets[b].endDate

----------------------------------------------------------------------------
(* The monthly summary over records dated at the edges of the months *)

\* GET /api/records/monthly-summary?year=&month=
MonthlySummary(u, year, month) ==
    /\ IF year = NoNum \/ month = NoNum
       THEN resp' = RespondData("monthlySummary", 400, NoDocs)
       ELSE resp' = RespondData("monthlySummary", 200,
                                GetMonthlySummary(records, u, year, month))
    /\ UNCHANGED <<records, budgets, nextRecordId, nextBudgetId, now, inflight>>

\* The first instant, the last second and the last millisecond of a month
MonthEdges(y, m0) ==
    {MakeDate(y, m0, 1, TimeOfDay.midnight),
     MakeDate(y, m0, DaysInMonth(y, m0), TimeOfDay.lastSecond),
     MakeDate(y, m0, DaysInMonth(y, m0), TimeOfDay.lastMilli)}

\* The edges of every month of the first year but the last second of the
\* months from March to November, and of the turn of the year, February and
\* December of the years after it
MonthEdgeSamples ==
    {t \in UNION {MonthEdges(y, m0) : y \in Years, m0 \in 0 .. 11} :
        IF GetFullYear(t) = FirstYear
        THEN TimeOf(t) # TimeOfDay.lastSecond \/ GetMonth(t) \in {0, 1, 11}
        ELSE /\ TimeOf(t) # TimeOfDay.lastSecond
             /\ \/ GetMonth(t) \in {1, 11}
                \/ GetMonth(t) \in {0, 2} /\ TimeOf(t) = TimeOfDay.midnight}

MonthRecords ==
    [user : {"u1"}, type : Types, category : {"Food & Dining"},
     amount : {MaxAmount}, date : MonthEdgeSamples]

InitMonths ==
    /\ \E n \in 0 .. MaxRecords : records \in [1 .. n -> MonthRecords]
    /\ budgets = << >>
    /\ nextRecordId = Len(records)
    /\ nextBudgetId = 0
    /\ now = MakeDate(FirstYear, 2, 13, TimeOfDay.noon)
    /\ resp = Respond("none", 0, NoDocs)
    /\ inflight = [p \in Clients |-> Idle]

NextMonths ==
    \E year \in Years \cup {NoNum}, month \in 1 .. 12 : MonthlySummary("u1", year, month)

SpecMonths == InitMonths /\ [][NextMonths]_vars

\* The sum of the amounts of u's records of a type dated from..to
TypeSum(recs, u, type, from, to) ==
    SumAmounts(recs, {id \in DOMAIN recs :
                         /\ recs[id].user = u
                         /\ recs[id].type = type
                         /\ from <= recs[id].date
                         /\ recs[id].date <= to})

RECURSIVE SumOfMonths(_, _, _, _, _)
SumOfMonths(recs, u, year, type, upTo) ==
    IF upTo = 0 THEN 0
    ELSE LET s == GetMonthlySummary(recs, u, year, upTo)
         IN  (IF type = "income" THEN s.income ELSE s.expense)
             + SumOfMonths(recs, u, year, type, upTo - 1)

FirstInstant(year, m0) == MakeDate(year, m0, 1, TimeOfDay.midnight)
LastInstant(year, m0) == MakeDate(year, m0, LastDayOfMonth(year, m0), TimeOfDay.lastMilli)

\* C25: for the year of a monthly summary, the incomes of the summaries of
\* months 1..12 add up to the total income of the records dated in that year,
\* and likewise the expenses: every record of the year is counted in exactly
\* one month.
C25_MonthsAddUpToYear ==
    (resp.op = "monthlySummary" /\ resp.status = 200) =>
        \A type \in Types :
            SumOfMonths(records, "u1", resp.data.year, type, 12) =
                TypeSum(records, "u1", type,
                        FirstInstant(resp.data.year, 0), LastInstant(resp.data.year, 11))

\* C26: the summary of a month counts the records dated from the first
\* instant to the last instant of that month, both included, and no record of
\* the month before or after, for every month of every year.
C26_MonthIsClosedInterval ==
    (resp.op = "monthlySummary" /\ resp.status = 200) =>
        LET y == resp.data.year
            m0 == resp.data.month - 1
        IN  /\ resp.data.income =
                  TypeSum(records, "u1", "income", FirstInstant(y, m0), LastInstant(y, m0))
            /\ resp.data.expense =
                  TypeSum(records, "u1", "expense", FirstInstant(y, m0), LastInstant(y, m0))

----------------------------------------------------------------------------
(* The balance and the category breakdown over stored records *)

\* GET /api/records/balance
GetBalance(u) ==
    /\ resp' = RespondData("balance", 200, GetUserBalance(records, u))
    /\ UNCHANGED <<records, budgets, nextRecordId, nextBudgetId, now, inflight>>

\* A $match stage that leaves the type out (what C24 rules out)
BreakdownMatchAnyType(recs, u, type, year, month) ==
    {id \in DOMAIN recs :
        /\ recs[id].user = u
        /\ (year # NoNum /\ month # NoNum) =>
              /\ recs[id].date >= MakeDate(year, month - 1, 1, TimeOfDay.midnight)
              /\ recs[id].date <= MakeDate(year, month, 0, TimeOfDay.lastSecond)}

\* matchQuery of GET /api/records/category-breakdown: the user, the type and,
\* if year and month are given, the month
BreakdownMatch(recs, u, type, year, month) ==
    {id \in DOMAIN recs :
        /\ recs[id].user = u
        /\ recs[id].type = type
        /\ (year # NoNum /\ month # NoNum) =>
              /\ recs[id].date >= MakeDate(year, month - 1, 1, TimeOfDay.midnight)
              /\ recs[id].date <= MakeDate(year, month, 0, TimeOfDay.lastSecond)}

\* $group by category with $sum of the amounts and of 1
GroupByCategory(recs, matched) ==
    {[category |-> c,
      total    |-> SumAmounts(recs, {id \in matched : recs[id].category = c}),
      count    |-> Cardinality({id \in matched : recs[id].category = c})] :
        c \in {recs[id].category : id \in matched}}

\* $sort {total: -1}: the orders of the groups with totals descending, groups
\* of equal total in any order
SortedByTotal(groups) ==
    {s \in [1 .. Cardinality(groups) -> groups] :
        /\ \A i, j \in DOMAIN s : i # j => s[i] # s[j]
        /\ \A i, j \in DOMAIN s : i < j => s[i].total >= s[j].total}

\* GET /api/records/category-breakdown?type=&year=&month=
CategoryBreakdown(u, type, year, month) ==
    /\ \E s \in SortedByTotal(GroupByCategory(records,
                   BreakdownMatch(records, u, IF type = NoVal THEN "expense" ELSE type,
                                  year, month))) :
          resp' = RespondData("categoryBreakdown", 200, s)
    /\ UNCHANGED <<records, budgets, nextRecordId, nextBudgetId, now, inflight>>

\* Record dates inside and at the very end of March of the first year
ReportDates ==
    {MakeDate(FirstYear, 2, 13, TimeOfDay.noon),
     MakeDate(FirstYear, 2, 31, TimeOfDay.lastMilli)}

ReportRecords ==
    [user : {"u1"}, type : Types, category : {"Food & Dining", "Transportation"},
     amount : 1 .. MaxAmount, date : {MakeDate(FirstYear, 2, 13, TimeOfDay.noon)}]
    \cup [user : {"u1"}, type : Types, category : {"Food & Dining"},
          amount : {MaxAmount}, date : ReportDates]
    \cup [user : {"u2"}, type : {"income"}, category : {"Food & Dining"},
          amount : {MaxAmount}, date : {MakeDate(FirstYear, 2, 13, TimeOfDay.noon)}]

MaxReported == MaxRecords + 1

ReportWindows == {<<NoNum, NoNum>>, <<FirstYear, 3>>}

InitReports ==
    /\ \E n \in 0 .. MaxReported : records \in [1 .. n -> ReportRecords]
    /\ budgets = << >>
    /\ nextRecordId = Len(records)
    /\ nextBudgetId = 0
    /\ now = MakeDate(FirstYear, 2, 13, TimeOfDay.noon)
    /\ resp = Respond("none", 0, NoDocs)
    /\ inflight = [p \in Clients |-> Idle]

NextReports ==
    \/ \E u \in Users : GetBalance(u)
    \/ \E w \in ReportWindows \ {<<NoNum, NoNum>>} : MonthlySummary("u1", w[1], w[2])
    \/ \E u \in Users, type \in Types \cup {NoVal}, w \in ReportWindows :
          CategoryBreakdown(u, type, w[1], w[2])

SpecReports == InitReports /\ [][NextReports]_vars

\* The amounts of u's records of a type among the first n records, added up
\* one record at a time
RECURSIVE TotalOfType(_, _, _, _)
TotalOfType(recs, u, type, n) ==
    IF n = 0 THEN 0
    ELSE (IF recs[n].user = u /\ recs[n].type = type THEN recs[n].amount ELSE 0)
         + TotalOfType(recs, u, type, n - 1)

\* C23: getBalance answers income = the sum of the amounts of the caller's
\* income records, expense = the sum of the amounts of the caller's expense
\* records and balance = income - expense, over all records whatever their
\* date; with no records all three are 0.
C23_BalanceIsTotals ==
    [][resp'.op = "balance" =>
          \A u \in Users :
              GetBalance(u) =>
                  /\ resp'.data.income = TotalOfType(records, u, "income", Len(records))
                  /\ resp'.data.expense = TotalOfType(records, u, "expense", Len(records))
                  /\ resp'.data.balance = resp'.data.income - resp'.data.expense
                  /\ (\A id \in DOMAIN records : records[id].user # u) =>
                        resp'.data = [income |-> 0, expense |-> 0, balance |-> 0]]_vars

\* C23 witness: a balance with income and expense, over records of two
\* dates and of another user too
C23_Witness ==
    /\ resp.op = "balance"
    /\ resp.data.income > 0
    /\ resp.data.expense > resp.data.income
    /\ \E i, j, k \in DOMAIN records :
          /\ records[i].user = "u1" /\ records[j].user = "u1" /\ records[k].user = "u2"
          /\ records[i].date # records[j].date

\* The figure the Balance operations give for a type over a window: all-time
\* from getBalance, a month from getMonthlySummary
BalanceFigure(recs, u, type, year, month) ==
    LET figures == IF year = NoNum \/ month = NoNum
                   THEN GetUserBalance(recs, u)
                   ELSE GetMonthlySummary(recs, u, year, month)
    IN  IF type = "income" THEN figures.income ELSE figures.expense

\* The records of u of a type and a category that count towards that figure
FigureRecords(recs, u, type, c, year, month) ==
    {id \in DOMAIN recs :
        /\ recs[id].user = u /\ recs[id].type = type /\ recs[id].category = c
        /\ BalanceFigure([i \in {1} |-> recs[id]], u, type, year, month) = recs[id].amount}

RECURSIVE SeqTotal(_, _)
SeqTotal(s, n) == IF n = 0 THEN 0 ELSE s[n].total + SeqTotal(s, n - 1)

\* C24: the totals of a category breakdown for a type add up to the Balance
\* figure for that type over the same window (getBalance for all time,
\* getMonthlySummary for a year and month); there is exactly one entry for
\* each category that has such records, its count is the number of those
\* records, and the entries come with totals descending.
C24_BreakdownAddsUp ==
    [][resp'.op = "categoryBreakdown" =>
          \A u \in Users, type \in Types \cup {NoVal}, w \in ReportWindows :
              CategoryBreakdown(u, type, w[1], w[2]) =>
                  LET t == IF type = NoVal THEN "expense" ELSE type
                      s == resp'.data
                      counted(c) == FigureRecords(records, u, t, c, w[1], w[2])
                  IN  /\ SeqTotal(s, Len(s)) = BalanceFigure(records, u, t, w[1], w[2])
                      /\ \A i, j \in DOMAIN s : i # j => s[i].category # s[j].category
                      /\ {s[i].category : i \in DOMAIN s} =
                            {records[id].category :
                                id \in {x \in DOMAIN records :
                                           x \in counted(records[x].category)}}
                      /\ \A i \in DOMAIN s : s[i].count = Cardinality(counted(s[i].category))
                      /\ \A i, j \in DOMAIN s : i < j => s[i].total >= s[j].total]_vars

\* C24 witness: a breakdown of the expenses of March with two categories of
\* different totals, while the caller has a third expense, dated in the last
\* instant of March, that the window leaves out
C24_Witness ==
    /\ resp.op = "categoryBreakdown"
    /\ Len(resp.data) = 2
    /\ resp.data[1].total > resp.data[2].total
    /\ resp.data[1].count + resp.data[2].count = 2
    /\ Len(records) = 3
    /\ \A id \in DOMAIN records : records[id].user = "u1" /\ records[id].type = "expense"
    /\ \E id \in DOMAIN records :
          records[id].date = MakeDate(FirstYear, 2, 31, TimeOfDay.lastMilli)

----------------------------------------------------------------------------
(* The pages of GET /api/records over records with creation timestamps *)

\* query of GET /api/records: the user and the filters that are given
FindRecords(recs, u, type, startDate, endDate) ==
    {id \in DOMAIN recs :
        /\ recs[id].user = u
        /\ type # NoVal => recs[id].type = type
        /\ startDate # NoNum => recs[id].date >= startDate
        /\ endDate # NoNum => recs[id].date <= endDate}

\* .sort({date: -1, createdAt: -1}): the orders with date descending and,
\* within a date, createdAt descending; documents that agree on both come in
\* whatever order the query run produces
SortedByDate(recs, ids) ==
    {s \in [1 .. Cardinality(ids) -> ids] :
        /\ \A i, j \in DOMAIN s : i # j => s[i] # s[j]
        /\ \A i, j \in DOMAIN s : i < j =>
              \/ recs[s[i]].date > recs[s[j]].date
              \/ /\ recs[s[i]].date = recs[s[j]].date
                 /\ recs[s[i]].createdAt >= recs[s[j]].createdAt}

\* .limit(limit).skip((page - 1) * limit)
PageOf(s, page, limit) ==
    LET skip == (page - 1) * limit
        last == IF skip + limit < Len(s) THEN skip + limit ELSE Len(s)
    IN  SubSeq(s, skip + 1, last)

\* Math.ceil(total / limit)
TotalPages(total, limit) == (total + limit - 1) \div limit

\* GET /api/records?page=&limit=&type=&startDate=&endDate=; the response lists
\* the documents by _id, and request keeps what was asked
ListRecordsPage(u, type, startDate, endDate, page, limit) ==
    LET matched == FindRecords(records, u, type, startDate, endDate)
        total == Cardinality(matched)
    IN  /\ \E s \in SortedByDate(records, matched) :
              resp' = RespondData("listRecords", 200,
                         [records     |-> PageOf(s, page, limit),
                          totalPages  |-> TotalPages(total, limit),
                          currentPage |-> page,
                          total       |-> total,
                          request     |-> [user |-> u, type |-> type,
                                           startDate |-> startDate, endDate |-> endDate,
                                           limit |-> limit]])
        /\ UNCHANGED <<records, budgets, nextRecordId, nextBudgetId, now, inflight>>

ListDates ==
    {MakeDate(FirstYear, 2, 13, TimeOfDay.noon), MakeDate(FirstYear, 2, 31, TimeOfDay.noon)}

\* timestamps: true sets createdAt to the millisecond of the save
CreatedAtSamples == {1, 2}

ListedRecords ==
    [user : {"u1"}, type : Types, category : {"Food & Dining"}, amount : {MaxAmount},
     date : ListDates, createdAt : CreatedAtSamples]
    \cup [user : {"u2"}, type : {"expense"}, category : {"Food & Dining"},
          amount : {MaxAmount}, date : {MakeDate(FirstYear, 2, 13, TimeOfDay.noon)},
          createdAt : CreatedAtSamples]

ListRanges ==
    {<<NoNum, NoNum>>,
     <<MakeDate(FirstYear, 2, 31, TimeOfDay.noon), NoNum>>,
     <<NoNum, MakeDate(FirstYear, 2, 13, TimeOfDay.noon)>>}

InitList ==
    /\ \E n \in 0 .. MaxReported :
          /\ records \in [1 .. n -> ListedRecords]
          /\ \A i, j \in DOMAIN records : i < j => records[i].createdAt <= records[j].createdAt
    /\ budgets = << >>
    /\ nextRecordId = Len(records)
    /\ nextBudgetId = 0
    /\ now = MakeDate(FirstYear, 2, 13, TimeOfDay.noon)
    /\ resp = Respond("none", 0, NoDocs)
    /\ inflight = [p \in Clients |-> Idle]

NextList ==
    \E type \in {NoVal, "expense"}, range \in ListRanges,
       page \in 1 .. MaxReported, limit \in 1 .. 2 :
          ListRecordsPage("u1", type, range[1], range[2], page, limit)

SpecList == InitList /\ [][NextList]_vars

\* The caller's records that pass the filters of a request
Matching(recs, q) ==
    {id \in DOMAIN recs :
        /\ recs[id].user = q.user
        /\ q.type \in {NoVal, recs[id].type}
        /\ q.startDate = NoNum \/ ~(recs[id].date < q.startDate)
        /\ q.endDate = NoNum \/ ~(recs[id].date > q.endDate)}

\* C27: a page of listRecords holds only records of the caller that pass the
\* type and date-range filters, in order of date descending and creation time
\* descending; total is the number of all such records whatever the page and
\* limit; and the pages of one query hold every such record exactly once: a
\* page has the records its place calls for, and two different pages of the
\* same query over the same records share no record.
C27_PagesPartitionMatches ==
    [][resp'.op = "listRecords" =>
          LET d == resp'.data
              m == Matching(records, d.request)
              skip == (d.currentPage - 1) * d.request.limit
              rest == IF Cardinality(m) > skip THEN Cardinality(m) - skip ELSE 0
          IN  /\ \A i \in DOMAIN d.records : d.records[i] \in m
              /\ \A i, j \in DOMAIN d.records : i < j =>
                    /\ records[d.records[i]].date >= records[d.records[j]].date
                    /\ records[d.records[i]].date = records[d.records[j]].date =>
                          records[d.records[i]].createdAt >= records[d.records[j]].createdAt
              /\ d.total = Cardinality(m)
              /\ Len(d.records) = IF rest < d.request.limit THEN rest ELSE d.request.limit
              /\ (/\ resp.op = "listRecords"
                  /\ resp.data.request = d.request
                  /\ resp.data.currentPage # d.currentPage) =>
                    \A i \in DOMAIN d.records, j \in DOMAIN resp.data.records :
                        d.records[i] # resp.data.records[j]]_vars

----------------------------------------------------------------------------
(* Claims about what a request leaves alone *)

\* The stored fields of a budget other than isActive
BesidesIsActive(b) == [f \in DOMAIN b \ {"isActive"} |-> b[f]]

\* The stored fields of a budget other than spentAmount
BesidesSpentAmount(b) == [f \in DOMAIN b \ {"spentAmount"} |-> b[f]]

\* C31: toggleBudgetActive negates isActive of the budget it addresses and
\* changes no other stored field of it, no other budget and no record;
\* toggling the budget it leaves gives back the budget it found, so two
\* toggles restore the stored state.
C31_ToggleFlipsOnlyIsActive ==
    [][resp'.op = "toggleBudgetActive" =>
          \A u \in Users, id \in 1 .. MaxBudgets :
              (resp'.status = 200 /\ ToggleBudgetActive(u, id)) =>
                  /\ DOMAIN budgets' = DOMAIN budgets
                  /\ budgets'[id].isActive = ~budgets[id].isActive
                  /\ BesidesIsActive(budgets'[id]) = BesidesIsActive(budgets[id])
                  /\ \A other \in DOMAIN budgets \ {id} : budgets'[other] = budgets[other]
                  /\ records' = records
                  /\ [budgets' EXCEPT ![id].isActive = ~@] = budgets]_vars

\* C31 witness: a toggle has answered and left active again a budget that
\* holds a positive spentAmount, next to another budget
C31_Witness ==
    /\ resp.op = "toggleBudgetActive"
    /\ resp.status = 200
    /\ Cardinality(DOMAIN budgets) = 2
    /\ \A id \in DOMAIN budgets :
          /\ budgets[id].user = "u1"
          /\ budgets[id].spentAmount > 0
    /\ \E id \in DOMAIN budgets : budgets[id].isActive

\* C32: createRecord, updateRecord, deleteRecord, listBudgets and getBudget
\* change no budget field but spentAmount and neither add nor remove a
\* budget; listBudgets and getBudget change no record; and creating, updating
\* or deleting an income record whose type stays income changes no budget.
C32_OnlySpentAmountChanges ==
    [][/\ resp'.op \in {"createRecord", "updateRecord", "deleteRecord",
                        "listBudgets", "getBudget"} =>
             /\ DOMAIN budgets' = DOMAIN budgets
             /\ \A id \in DOMAIN budgets :
                   BesidesSpentAmount(budgets'[id]) = BesidesSpentAmount(budgets[id])
       /\ resp'.op \in {"listBudgets", "getBudget"} => records' = records
       /\ resp'.op = "createRecord" =>
             ((DOMAIN records' # DOMAIN records /\ records'[nextRecordId'].type = "income")
                 => budgets' = budgets)
       /\ resp'.op = "deleteRecord" =>
             \A id \in DOMAIN records :
                 (id \notin DOMAIN records' /\ records[id].type = "income")
                     => budgets' = budgets
       /\ resp'.op = "updateRecord" =>
             \A id \in DOMAIN records :
                 (/\ resp'.status = 200
                  /\ records[id].type = "income"
                  /\ records'[id].type = "income"
                  /\ \E u \in Users, body \in LedgerRecordBodies \cup OtherRecordBodies :
                        UpdateRecord(u, id, body, MaxBudgets))
                     => budgets' = budgets]_vars

\* C32 witness: an income record has just been stored while a budget of its
\* owner and category holds a spentAmount that its records do not add up to
C32_Witness ==
    /\ resp.op = "createRecord"
    /\ resp.status = 201
    /\ records[nextRecordId].type = "income"
    /\ \E id \in DOMAIN budgets :
          /\ budgets[id].user = records[nextRecordId].user
          /\ budgets[id].category = records[nextRecordId].category
          /\ budgets[id].isActive
          /\ ~Reconciled(budgets, records, id)

----------------------------------------------------------------------------
(* Claims about the totals of the budget overview *)

\* The values of field f of the documents with ids 1..n, added up
RECURSIVE TotalOfField(_, _, _)
TotalOfField(docs, n, f) ==
    IF n = 0 THEN 0
    ELSE (IF n \in DOMAIN docs THEN docs[n][f] ELSE 0) + TotalOfField(docs, n - 1, f)

\* The remainingAmount values of the documents with ids 1..n, added up
RECURSIVE TotalRemaining(_, _)
TotalRemaining(docs, n) ==
    IF n = 0 THEN 0
    ELSE (IF n \in DOMAIN docs THEN RemainingAmount(docs[n]) ELSE 0)
         + TotalRemaining(docs, n - 1)

\* C33: in an overview response each returned budget is in exactly one of the
\* groups good, warning and exceeded; summary.totalBudget and
\* summary.totalSpent are the sums of budgetAmount and of the reconciled
\* spentAmount of the returned budgets; and summary.totalRemaining is the sum
\* of their remainingAmount values.
C33_OverviewTotals ==
    (resp.op = "budgetOverview" /\ resp.status = 200) =>
        LET docs == resp.budgets
            groups == resp.data.budgetsByStatus
            summary == resp.data.summary
        IN  /\ groups.good \cup groups.warning \cup groups.exceeded = DOMAIN docs
            /\ groups.good \cap groups.warning = {}
            /\ groups.good \cap groups.exceeded = {}
            /\ groups.warning \cap groups.exceeded = {}
            /\ \A id \in DOMAIN docs :
                  docs[id].spentAmount =
                      ExpenseSum(records, docs[id].user, docs[id].category,
                                 docs[id].startDate, docs[id].endDate)
            /\ summary.totalBudget = TotalOfField(docs, nextBudgetId, "budgetAmount")
            /\ summary.totalSpent = TotalOfField(docs, nextBudgetId, "spentAmount")
            /\ summary.totalRemaining = TotalRemaining(docs, nextBudgetId)

----------------------------------------------------------------------------
(* The budget goal card of the dashboard *)

\* budgetData of the BudgetGoalTracker effect over the budgets and the balance
\* of the finance state; NoVal where the effect sets null
BudgetGoalTracker(budgetList, balance) ==
    LET activeBudgets == {id \in DOMAIN budgetList : budgetList[id].isActive # FALSE}
        overall == {id \in activeBudgets :
                       budgetList[id].category \in {"Overall Budget", "Overall"}}
        \* find(): the first such budget of the list
        overallBudget == CHOOSE id \in overall : \A other \in overall : id <= other
        totalBudget == IF overall # {}
                       THEN budgetList[overallBudget].budgetAmount
                       ELSE SumField(budgetList, activeBudgets, "budgetAmount")
        totalSpent == IF overall # {}
                      THEN balance.expense
                      ELSE SumField(budgetList, activeBudgets, "spentAmount")
        isExceeded == totalSpent > totalBudget
        isWarning == /\ IF totalBudget > 0 THEN totalSpent * 100 >= 80 * totalBudget
                                           ELSE 0 >= 80
                     /\ ~isExceeded
    IN  IF activeBudgets = {} THEN NoVal
        ELSE [totalBudget |-> totalBudget,
              totalSpent  |-> totalSpent,
              remaining   |-> IF totalBudget - totalSpent > 0
                              THEN totalBudget - totalSpent ELSE 0,
              isExceeded  |-> isExceeded,
              isWarning   |-> isWarning,
              status      |-> IF isExceeded THEN "exceeded"
                              ELSE IF isWarning THEN "warning" ELSE "good"]

\* C34: for a user whose only active budget is not the overall budget and has
\* alertThreshold 80, the status the budget goal card computes from
\* budgetAmount and spentAmount is the status the backend reports for that
\* budget, for every pair of amounts, spentAmount = budgetAmount included.
C34_TrackerStatusIsBackendStatus ==
    (resp.op = "budgetOverview" /\ resp.status = 200) =>
        \A id \in DOMAIN resp.budgets :
            (/\ DOMAIN resp.budgets = {id}
             /\ resp.budgets[id].category # Sentinel
             /\ resp.budgets[id].alertThreshold = 80) =>
                BudgetGoalTracker(resp.budgets, GetUserBalance(records, resp.budgets[id].user)).status
                    = resp.budgets[id].status

----------------------------------------------------------------------------
(* The web page of a client: the finance state of FinanceContext, the month
   and view of the Dashboard, and the calls that await a response.  A
   response to a read is computed from the collections when it arrives. *)

\* A stored record as the API returns it
Doc(recs, id) ==
    [f \in DOMAIN recs[id] \cup {"_id"} |-> IF f = "_id" THEN id ELSE recs[id][f]]

\* GET /api/records?startDate=&endDate=&limit=5 as loadDashboardData calls it:
\* the newest records of the window, newest first, records of one date in
\* order of creation
RecentRecords(recs, u, startDate, endDate) ==
    LET matched == FindRecords(recs, u, NoVal, startDate, endDate)
        stamped == [id \in matched |-> [date |-> recs[id].date, createdAt |-> id]]
    IN  {[i \in DOMAIN page |-> Doc(recs, page[i])] :
            page \in {PageOf(s, 1, 5) : s \in SortedByDate(stamped, matched)}}

\* initialState of FinanceContext with the Dashboard mounted in monthly view
\* on the current month, its first loadDashboardData awaiting the summary
PageInit(t) ==
    [pc           |-> "page",
     balance      |-> [income |-> 0, expense |-> 0, balance |-> 0],
     records      |-> << >>,
     viewMode     |-> "monthly",
     selectedDate |-> t,
     loads        |-> <<[date |-> t, stage |-> "balance", balanceData |-> NoVal]>>,
     call         |-> [stage |-> "idle"]]

MaxLoads == 2

\* The Dashboard effect: loadDashboardData(viewMode === 'monthly' ?
\* selectedDate : null) up to its first await
StartLoad(page) ==
    [page EXCEPT !.loads =
        Append(@, [date        |-> IF page.viewMode = "monthly"
                                   THEN page.selectedDate ELSE NoNum,
                   stage       |-> "balance",
                   balanceData |-> NoVal])]

\* goToPreviousMonth and goToNextMonth: setSelectedDate(new Date(year,
\* month + k, 1)), which runs the effect
GoToMonth(p, k) ==
    LET page == inflight[p]
        date == MakeDate(GetFullYear(page.selectedDate), GetMonth(page.selectedDate) + k,
                         1, TimeOfDay.midnight)
    IN  /\ page.pc = "page"
        /\ page.viewMode = "monthly"
        /\ Len(page.loads) < MaxLoads
        /\ GetMonth(page.selectedDate) + k \in 1 .. 2
        /\ inflight' = [inflight EXCEPT ![p] = StartLoad([page EXCEPT !.selectedDate = date])]
        /\ UNCHANGED <<records, budgets, nextRecordId, nextBudgetId, now, resp>>

\* setViewMode('monthly') and setViewMode('alltime'), which run the effect
SetViewMode(p, mode) ==
    LET page == inflight[p]
    IN  /\ page.pc = "page"
        /\ page.viewMode # mode
        /\ Len(page.loads) < MaxLoads
        /\ inflight' = [inflight EXCEPT ![p] = StartLoad([page EXCEPT !.viewMode = mode])]
        /\ UNCHANGED <<records, budgets, nextRecordId, nextBudgetId, now, resp>>

\* loadDashboardData: the monthly summary or the all-time balance arrives
LoadBalanceArrives(p, i) ==
    LET page == inflight[p]
        load == page.loads[i]
        summary == GetMonthlySummary(records, "u1", GetFullYear(load.date),
                                     GetMonth(load.date) + 1)
        balanceData == IF load.date # NoNum
                       THEN [income |-> summary.income, expense |-> summary.expense,
                             balance |-> summary.balance]
                       ELSE GetUserBalance(records, "u1")
    IN  /\ page.pc = "page"
        /\ i \in DOMAIN page.loads
        /\ load.stage = "balance"
        /\ inflight' = [inflight EXCEPT ![p].loads[i] =
                           [load EXCEPT !.stage = "records", !.balanceData = balanceData]]
        /\ UNCHANGED <<records, budgets, nextRecordId, nextBudgetId, now, resp>>

\* loadDashboardData: the recent records arrive and SET_DASHBOARD_DATA is
\* dispatched
LoadRecordsArrive(p, i) ==
    LET page == inflight[p]
        load == page.loads[i]
        startDate == IF load.date = NoNum THEN NoNum
                     ELSE MakeDate(GetFullYear(load.date), GetMonth(load.date), 1,
                                   TimeOfDay.midnight)
        endDate == IF load.date = NoNum THEN NoNum
                   ELSE MakeDate(GetFullYear(load.date), GetMonth(load.date) + 1, 0,
                                 TimeOfDay.lastSecond)
    IN  /\ page.pc = "page"
        /\ i \in DOMAIN page.loads
        /\ load.stage = "records"
        /\ \E recentRecords \in RecentRecords(records, "u1", startDate, endDate) :
              inflight' = [inflight EXCEPT ![p] =
                  [page EXCEPT !.balance = load.balanceData,
                               !.records = recentRecords,
                               !.loads = [j \in 1 .. Len(page.loads) - 1 |->
                                             IF j < i THEN page.loads[j]
                                             ELSE page.loads[j + 1]]]]
        /\ UNCHANGED <<records, budgets, nextRecordId, nextBudgetId, now, resp>>

\* TransactionForm.handleSubmit, or the delete button of the transaction
\* list: createRecord, updateRecord or deleteRecord of the context sends its
\* request
CallContext(p, kind, id, body) ==
    LET page == inflight[p]
    IN  /\ page.pc = "page"
        /\ page.call.stage = "idle"
        /\ kind = "createRecord" => nextRecordId < MaxRecords
        /\ kind # "createRecord" => \E i \in DOMAIN page.records :
                                       /\ "_id" \in DOMAIN page.records[i]
                                       /\ page.records[i]._id = id
        /\ inflight' = [inflight EXCEPT ![p].call =
                           [stage |-> "request",
                            kind  |-> kind,
                            id    |-> IF kind = "createRecord" THEN NoNum ELSE id,
                            body  |-> IF kind = "deleteRecord" THEN NoVal ELSE body]]
        /\ UNCHANGED <<records, budgets, nextRecordId, nextBudgetId, now, resp>>

\* The server handles the request of the context
ServeCall(p) ==
    LET call == inflight[p].call
    IN  /\ inflight[p].pc = "page"
        /\ call.stage = "request"
        /\ resp.op = "none"
        /\ \E okCalls \in AlwaysOk :
              CASE call.kind = "createRecord" -> CreateRecord("u1", call.body, okCalls)
                [] call.kind = "updateRecord" -> UpdateRecord("u1", call.id, call.body, okCalls)
                [] OTHER -> DeleteRecord("u1", call.id, okCalls)

\* The response body of a record request, as request() of apiService returns it
ResponseBody(kind, id) ==
    CASE kind = "createRecord" ->
            [message |-> "Record created successfully", record |-> Doc(records, nextRecordId)]
      [] kind = "updateRecord" ->
            [message |-> "Record updated successfully", record |-> Doc(records, id)]
      [] OTHER -> [message |-> "Record deleted successfully"]

\* a._id === b._id, where a missing _id is undefined
SameId(a, b) ==
    IF "_id" \in DOMAIN a /\ "_id" \in DOMAIN b THEN a._id = b._id
    ELSE "_id" \notin DOMAIN a /\ "_id" \notin DOMAIN b

\* financeReducer: ADD_RECORD, UPDATE_RECORD and DELETE_RECORD
ReduceRecords(list, kind, payload) ==
    CASE kind = "createRecord" -> <<payload>> \o list
      [] kind = "updateRecord" ->
            [i \in DOMAIN list |-> IF SameId(list[i], payload) THEN payload ELSE list[i]]
      [] OTHER -> SelectSeq(list, LAMBDA record : ~SameId(record, [_id |-> payload]))

\* The response of the server arrives: the context dispatches it and asks for
\* the balance; an error response is thrown
CallResolves(p) ==
    LET page == inflight[p]
        call == page.call
        payload == IF call.kind = "deleteRecord" THEN call.id
                   ELSE ResponseBody(call.kind, call.id)
    IN  /\ page.pc = "page"
        /\ call.stage = "request"
        /\ resp.op = call.kind
        /\ resp' = Respond("none", 0, NoDocs)
        /\ inflight' = [inflight EXCEPT ![p] =
              IF resp.status \in {200, 201}
              THEN [page EXCEPT !.records = ReduceRecords(page.records, call.kind, payload),
                                !.call.stage = "balance"]
              ELSE [page EXCEPT !.call = [stage |-> "idle"]]]
        /\ UNCHANGED <<records, budgets, nextRecordId, nextBudgetId, now>>

\* The balance arrives: SET_BALANCE; handleSubmit then awaits
\* loadDashboardData() with no date
BalanceArrives(p) ==
    LET page == inflight[p]
        set == [page EXCEPT !.balance = GetUserBalance(records, "u1"),
                            !.call = [stage |-> "idle"]]
    IN  /\ page.pc = "page"
        /\ page.call.stage = "balance"
        /\ page.call.kind # "deleteRecord" => Len(page.loads) < MaxLoads
        /\ inflight' = [inflight EXCEPT ![p] =
              IF page.call.kind = "deleteRecord" THEN set
              ELSE [set EXCEPT !.loads =
                       Append(@, [date |-> NoNum, stage |-> "balance",
                                  balanceData |-> NoVal])]]
        /\ UNCHANGED <<records, budgets, nextRecordId, nextBudgetId, now, resp>>

\* What the form submits: incomes dated today or a month ago
FormBodies ==
    [amount : {MaxAmount}, type : {"income"}, category : {"Salary"},
     date : {MakeDate(2024, 2, 13, TimeOfDay.midnight),
             MakeDate(2024, 1, 13, TimeOfDay.midnight)},
     user : {NoVal}]

InitPage ==
    /\ records = << >>
    /\ budgets = << >>
    /\ nextRecordId = 0
    /\ nextBudgetId = 0
    /\ now = MakeDate(2024, 2, 13, TimeOfDay.noon)
    /\ resp = Respond("none", 0, NoDocs)
    /\ inflight = [p \in Clients |-> IF p = "p1" THEN PageInit(now) ELSE Idle]

NextPage ==
    \/ \E k \in {0 - 1, 1} : GoToMonth("p1", k)
    \/ \E mode \in {"monthly", "alltime"} : SetViewMode("p1", mode)
    \/ \E i \in 1 .. MaxLoads : LoadBalanceArrives("p1", i)
    \/ \E i \in 1 .. MaxLoads : LoadRecordsArrive("p1", i)
    \/ \E kind \in {"createRecord", "updateRecord", "deleteRecord"},
          id \in 1 .. MaxRecords, body \in FormBodies : CallContext("p1", kind, id, body)
    \/ ServeCall("p1")
    \/ CallResolves("p1")
    \/ BalanceArrives("p1")

SpecPage == InitPage /\ [][NextPage]_vars

\* The balance figures of u's records dated from..to, added up record by
\* record over the ids handed out so far
RECURSIVE FigureOf(_, _, _, _, _, _)
FigureOf(recs, u, type, from, to, n) ==
    IF n = 0 THEN 0
    ELSE (IF /\ n \in DOMAIN recs
             /\ recs[n].user = u /\ recs[n].type = type
             /\ from <= recs[n].date /\ recs[n].date <= to
          THEN recs[n].amount ELSE 0)
         + FigureOf(recs, u, type, from, to, n - 1)

\* The balance the Dashboard is to show for a view: the figures of the
\* selected month in monthly view, of all records in all-time view
ViewBalance(viewMode, selectedDate) ==
    LET y == GetFullYear(selectedDate)
        m0 == GetMonth(selectedDate)
        from == IF viewMode = "monthly" THEN FirstInstant(y, m0) ELSE 0
        to == IF viewMode = "monthly" THEN LastInstant(y, m0)
              ELSE LastInstant(FirstYear + Cardinality(Years) - 1, 11)
        income == FigureOf(records, "u1", "income", from, to, nextRecordId)
        expense == FigureOf(records, "u1", "expense", from, to, nextRecordId)
    IN  [income |-> income, expense |-> expense, balance |-> income - expense]

\* C35: whenever the page has no request in flight, the balance of the finance
\* state is the balance of the Dashboard's view: the summary of the selected
\* month in monthly view, the all-time balance in all-time view, whatever
\* navigation, view changes and submissions came before and in whatever order
\* the responses arrived.
C35_BalanceMatchesView ==
    LET page == inflight["p1"]
    IN  (page.loads = << >> /\ page.call.stage = "idle" /\ resp.op = "none") =>
            page.balance = ViewBalance(page.viewMode, page.selectedDate)

\* C36: when a mutation made through the context has been dispatched, the
\* records list mirrors the server: after createRecord its first element is
\* the created record, after updateRecord the entry with that id holds the
\* stored values, after deleteRecord no entry has that id; and every element
\* of the list is a record with an _id.
C36_ListMirrorsServer ==
    [][(inflight["p1"].call.stage = "request" /\ inflight'["p1"].call.stage = "balance") =>
          LET call == inflight["p1"].call
              list == inflight'["p1"].records
          IN  /\ \A i \in DOMAIN list : "_id" \in DOMAIN list[i]
              /\ call.kind = "createRecord" =>
                    /\ list # << >>
                    /\ list[1] = Doc(records, nextRecordId)
              /\ call.kind = "updateRecord" =>
                    \A i \in DOMAIN list :
                        list[i]._id = call.id => list[i] = Doc(records, call.id)
              /\ call.kind = "deleteRecord" =>
                    \A i \in DOMAIN list : list[i]._id # call.id]_vars

----------------------------------------------------------------------------
(* AIService.getFinancialSuggestions: one call with its retries *)

\* fallbackModels
FallbackModels ==
    <<"mistralai/mistral-7b-instruct", "meta-llama/llama-3-8b-instruct",
      "openchat/openchat-3.5-0106", "nousresearch/nous-capybara-7b",
      "gryphe/mythomax-l2-13b">>

\* Fallbacks that keep the configured model (what C37 rules out)
UnfilteredFallbacks(model) == FallbackModels

\* availableFallbacks: fallbackModels.filter(m => m !== this.model)
AvailableFallbacks(model) == SelectSeq(FallbackModels, LAMBDA m : m # model)

\* modelToUse
ModelToUse(model, retryCount) ==
    IF retryCount > 0 /\ retryCount <= Len(AvailableFallbacks(model))
    THEN AvailableFallbacks(model)[retryCount]  \* sequences start at 1
    ELSE model

\* What a fetch can come to: a completion, a 200 body with an error or with
\* neither, an error response that passes the isModelError test, other error
\* responses (401, 429, out of credits, any other) and a rejected fetch
Responses ==
    {"completion", "errorInBody", "invalidFormat", "modelError",
     "unauthorized", "rateLimited", "noCredits", "serverError", "networkError"}

\* The outcome of an attempt that does not retry: the returned content or the
\* error the catch block throws
Settle(response) ==
    CASE response = "completion"    -> [pc |-> "returned", error |-> NoVal]
      [] response = "errorInBody"   -> [pc |-> "thrown", error |-> "data.error.message"]
      [] response = "invalidFormat" -> [pc |-> "thrown", error |-> "Invalid response format"]
      [] response = "modelError"    -> [pc |-> "thrown", error |-> "All free models failed"]
      [] response = "unauthorized"  -> [pc |-> "thrown", error |-> "Authentication failed"]
      [] response = "rateLimited"   -> [pc |-> "thrown", error |-> "Rate limit exceeded"]
      [] response = "noCredits"     -> [pc |-> "thrown", error |-> "Insufficient API credits"]
      [] response = "networkError"  -> [pc |-> "thrown", error |-> "Network error"]
      [] OTHER                      -> [pc |-> "thrown", error |-> "AI API error"]

\* A call of getFinancialSuggestions(financialData) about to start
SuggestInit(model, hasApiKey) ==
    [pc |-> "fetch", model |-> model, hasApiKey |-> hasApiKey, retryCount |-> 0,
     sent |-> << >>, received |-> << >>, error |-> NoVal]

\* One pass through getFinancialSuggestions(financialData, retryCount): the
\* request goes out with modelToUse, and its response ends the call or makes
\* it call itself with retryCount + 1
GetFinancialSuggestions(p, response) ==
    LET call == inflight[p]
    IN  /\ call.pc = "fetch"
        /\ inflight' = [inflight EXCEPT ![p] =
              IF ~call.hasApiKey
              THEN [call EXCEPT !.pc = "thrown", !.error = "API key is not configured"]
              ELSE LET sent == Append(call.sent, ModelToUse(call.model, call.retryCount))
                       received == Append(call.received, response)
                   IN  IF /\ response = "modelError"
                          /\ call.retryCount < Len(AvailableFallbacks(call.model))
                       THEN [call EXCEPT !.retryCount = @ + 1, !.sent = sent,
                                         !.received = received]
                       ELSE [call EXCEPT
                                !.pc = Settle(response).pc,
                                !.error = Settle(response).error,
                                !.sent = sent,
                                !.received = received]]
        /\ UNCHANGED <<records, budgets, nextRecordId, nextBudgetId, now, resp>>

\* VITE_OPENROUTER_MODEL: the default, another fallback model, or a model
\* outside the list
ConfiguredModels ==
    {"mistralai/mistral-7b-instruct", "openchat/openchat-3.5-0106", "openrouter/auto"}

InitSuggest ==
    /\ records = << >>
    /\ budgets = << >>
    /\ nextRecordId = 0
    /\ nextBudgetId = 0
    /\ now = MakeDate(2024, 2, 13, TimeOfDay.noon)
    /\ resp = Respond("none", 0, NoDocs)
    /\ \E model \in ConfiguredModels, hasApiKey \in BOOLEAN :
          inflight = [p \in Clients |->
                         IF p = "p1" THEN SuggestInit(model, hasApiKey) ELSE Idle]

NextSuggest == \E response \in Responses : GetFinancialSuggestions("p1", response)

SpecSuggest == InitSuggest /\ [][NextSuggest]_vars

\* The models of the fallback list other than the configured one
OtherFallbacks(model) == {FallbackModels[i] : i \in DOMAIN FallbackModels} \ {model}

\* C37: a call of getFinancialSuggestions sends at most 1 + (number of
\* fallback models other than the configured model) requests, each with a
\* model no earlier attempt of the call used; it sends another request only
\* after a model-type error; a response that is not a model-type error ends
\* the call at once, a completion by returning and any other by throwing; a
\* model-type error after the last fallback throws; and a call that has
\* ended sends nothing more.
C37_RetriesAreBounded ==
    LET call == inflight["p1"]
        n == Len(call.sent)
    IN  /\ n <= 1 + Cardinality(OtherFallbacks(call.model))
        /\ \A i, j \in 1 .. n : i # j => call.sent[i] # call.sent[j]
        /\ \A i \in 1 .. n : call.sent[i] \in OtherFallbacks(call.model) \cup {call.model}
        /\ Len(call.received) = n
        /\ \A i \in 1 .. n - 1 : call.received[i] = "modelError"
        /\ call.pc = "fetch" => (\A i \in 1 .. n : call.received[i] = "modelError")
        /\ (n > 0 /\ call.received[n] = "completion") => call.pc = "returned"
        /\ (n > 0 /\ call.received[n] \notin {"completion", "modelError"}) => call.pc = "thrown"
        /\ (n > 0 /\ call.received[n] = "modelError") =>
              (call.pc = "thrown" <=> n = 1 + Cardinality(OtherFallbacks(call.model)))
        /\ call.pc = "returned" => call.received[n] = "completion"
        /\ call.pc # "fetch" => ~ENABLED NextSuggest

\* C37 witness: a call with the default model has thrown after a model-type
\* error from the configured model and from each of the four other fallbacks
C37_Witness ==
    LET call == inflight["p1"]
    IN  /\ call.pc = "thrown"
        /\ call.error = "All free models failed"
        /\ call.model = "mistralai/mistral-7b-instruct"
        /\ Len(call.sent) = 5

====
